---- MODULE Spec2Model ----
(***************************************************************************)
(* PharmaInsight Pro backend: the session registry (data_store), the      *)
(* ingestion of an uploaded sales table (DataProcessor), the product      *)
(* classifier, the date-filtered view and the aggregations of             *)
(* AnalyticsService, and the routers that expose them.                    *)
(*                                                                         *)
(* Representation.  A pandas DataFrame is a record [cols, rows]: the set  *)
(* of its column names and the sequence of its rows, each row a function  *)
(* on cols.  A text cell is a tuple of one-character strings, so that     *)
(* substring tests, strip() and upper()/lower() are computed.  A          *)
(* timestamp is a number of ticks, TicksPerDay to the calendar day; day 0 *)
(* is 2024-01-01.  A period key "YYYY-MM" is the number YYYY*100+MM,      *)
(* which orders as the string does.  Amounts are integers; a quotient the *)
(* code computes in floating point is kept exact as a pair <<num, den>>.  *)
(***************************************************************************)
EXTENDS Integers, Sequences, FiniteSets, TLC

VARIABLES data_store, resp

vars == <<data_store, resp>>

(***************************************************************************)
(* Bounds of the model.                                                    *)
(***************************************************************************)
\* Instants told apart within one calendar day.
TicksPerDay == 2

\* Rows of the generated sales files of the category runs.
MaxRawRows == 4

\* Tokens a generated product name is made of.
MaxNameTokens == 2

\* Products of the generated files of the inventory runs.
MaxProducts == 12

\* Months of history of the generated files of the forecast runs.
MaxMonths == 8

(***************************************************************************)
(* Text.                                                                   *)
(***************************************************************************)
UpperAlpha ==
    << "A","B","C","D","E","F","G","H","I","J","K","L","M",
       "N","O","P","Q","R","S","T","U","V","W","X","Y","Z" >>

LowerAlpha ==
    << "a","b","c","d","e","f","g","h","i","j","k","l","m",
       "n","o","p","q","r","s","t","u","v","w","x","y","z" >>

IndexIn(ch, alpha) ==
    IF \E i \in 1..Len(alpha) : alpha[i] = ch
    THEN CHOOSE i \in 1..Len(alpha) : alpha[i] = ch
    ELSE 0

lower(s) ==
    [i \in 1..Len(s) |->
        IF IndexIn(s[i], UpperAlpha) > 0
        THEN LowerAlpha[IndexIn(s[i], UpperAlpha)] ELSE s[i]]

upper(s) ==
    [i \in 1..Len(s) |->
        IF IndexIn(s[i], LowerAlpha) > 0
        THEN UpperAlpha[IndexIn(s[i], LowerAlpha)] ELSE s[i]]

RECURSIVE lstrip(_)
lstrip(s) == IF Len(s) > 0 /\ Head(s) = " " THEN lstrip(Tail(s)) ELSE s

RECURSIVE rstrip(_)
rstrip(s) ==
    IF Len(s) > 0 /\ s[Len(s)] = " " THEN rstrip(SubSeq(s, 1, Len(s) - 1)) ELSE s

strip(s) == rstrip(lstrip(s))

\* Python's `sub in s` on strings.
Contains(sub, s) ==
    \E i \in 0..(Len(s) - Len(sub)) : SubSeq(s, i + 1, i + Len(sub)) = sub

(***************************************************************************)
(* MARKUP_CATEGORIES: the keyword lists, and the categories in the order   *)
(* the dictionary holds them.                                              *)
(***************************************************************************)
Keywords_acute ==
    << <<"c","o","a","r","t","e","m">>,
        <<"l","o","n","a","r","t">>,
        <<"l","u","f","a","r","t">>,
        <<"l","a","r","i","a","m">>,
        <<"m","a","l","a","r">>,
        <<"a","r","t","e","s","u","n","a","t","e">>,
        <<"a","m","a","t","e","m">>,
        <<"a","m","o","k","s","i","k","l","a","v">>,
        <<"a","u","g","m","e","n","t","i","n">>,
        <<"z","i","t","h","r","o","m","a","x">>,
        <<"z","i","n","n","a","t">>,
        <<"c","i","p","r","o">>,
        <<"a","z","i","t","h","r","o">>,
        <<"f","l","a","g","y","l">>,
        <<"d","o","r","e","t","a">>,
        <<"c","e","l","e","b","r","e","x">>,
        <<"v","o","l","t","f","a","s","t">>,
        <<"d","i","c","l","o">>,
        <<"i","b","u","p","r","o","f","e","n">>,
        <<"p","a","r","a","c","e","t","a","m","o","l">>,
        <<"t","r","a","m","a","d","o","l">>,
        <<"p","o","s","t","p","i","l","l">>,
        <<"p","o","s","t","i","n","o","r">>,
        <<"k","l","o","v","i","n","a","l">>,
        <<"f","l","u","c","o","n","a","z","o","l","e">>,
        <<"v","e","r","m","o","x">>,
        <<"z","e","n","t","e","l">>,
        <<"a","l","b","e","n","d","a","z","o","l","e">>,
        <<"c","a","l","p","o","l">>,
        <<"w","e","l","l","b","a","b","y">>,
        <<"a","b","i","d","e","c">>,
        <<"b","o","n","n","i","s","a","n">>,
        <<"i","n","f","a","c","o","l">>,
        <<"v","e","n","t","o","l","i","n">>,
        <<"b","e","n","y","l","i","n">>,
        <<"p","i","r","i","t","o","n">>,
        <<"s","t","r","e","p","s","i","l","s">>,
        <<"t","i","x","y","l","i","x">> >>

Keywords_chronic ==
    << <<"m","e","t","f","o","r","m","i","n">>,
        <<"g","a","l","v","u","s">>,
        <<"d","i","a","m","i","c","r","o","n">>,
        <<"g","l","i","m","e","p","i","r","i","d","e">>,
        <<"i","n","s","u","l","i","n">>,
        <<"m","i","x","t","a","r","d">>,
        <<"f","o","r","x","i","g","a">>,
        <<"a","m","l","o","d","i","p","i","n","e">>,
        <<"n","i","f","e","c","a","r","d">>,
        <<"e","x","f","o","r","g","e">>,
        <<"l","i","s","i","n","o","p","r","i","l">>,
        <<"l","o","s","a","r","t","a","n">>,
        <<"a","t","e","n","o","l","o","l">>,
        <<"c","r","e","s","t","o","r">>,
        <<"c","o","m","b","i","g","a","n">>,
        <<"x","a","l","a","t","a","n">>,
        <<"t","i","m","o","l","o","l">>,
        <<"b","l","u","s","o","p","t">>,
        <<"b","l","u","p","r","o","s","t">>,
        <<"l","y","r","i","c","a">>,
        <<"c","a","r","b","a","m","a","z","e","p","i","n","e">>,
        <<"e","p","i","l","i","m">>,
        <<"o","n","e","t","o","u","c","h">>,
        <<"g","l","u","c","o","m","e","t","e","r">>,
        <<"a","c","c","u","-","c","h","e","k">>,
        <<"o","m","e","p","r","a","z","o","l","e">>,
        <<"n","e","x","i","u","m">>,
        <<"p","a","n","t","o","p","r","a","z","o","l","e">> >>

Keywords_convenience ==
    << <<"w","a","t","e","r">>,
        <<"c","o","l","a">>,
        <<"m","a","l","t">>,
        <<"d","r","i","n","k">>,
        <<"j","u","i","c","e">>,
        <<"d","o","v","e">>,
        <<"n","i","v","e","a">>,
        <<"v","a","s","e","l","i","n","e">>,
        <<"s","u","r","e">>,
        <<"r","e","x","o","n","a">>,
        <<"a","l","w","a","y","s">>,
        <<"s","a","n","i","t","a","r","y">>,
        <<"p","a","d">>,
        <<"t","o","o","t","h","p","a","s","t","e">>,
        <<"t","o","o","t","h","b","r","u","s","h">>,
        <<"m","o","u","t","h","w","a","s","h">>,
        <<"c","o","t","t","o","n">>,
        <<"b","a","n","d","a","g","e">>,
        <<"p","l","a","s","t","e","r">>,
        <<"s","n","a","c","k">>,
        <<"b","i","s","c","u","i","t">>,
        <<"c","o","o","k","i","e">>,
        <<"c","o","n","d","o","m">>,
        <<"d","u","r","e","x">> >>

Keywords_recurring ==
    << <<"a","p","t","a","m","i","l">>,
        <<"n","a","n"," ">>,
        <<"s","m","a"," ">>,
        <<"l","a","c","t","o","g","e","n">>,
        <<"c","e","r","e","l","a","c">>,
        <<"s","i","m","i","l","a","c">>,
        <<"p","r","e","g","n","a","c","a","r","e">>,
        <<"p","r","e","g","n","a">>,
        <<"f","o","l","i","c"," ","a","c","i","d">>,
        <<"f","e","r","r","o","u","s">>,
        <<"c","o","c","o","o","n">>,
        <<"d","i","a","p","e","r">>,
        <<"p","a","m","p","e","r","s">>,
        <<"h","u","g","g","i","e","s">>,
        <<"e","n","s","u","r","e">>,
        <<"g","l","u","c","e","r","n","a">> >>

\* The table with the recurring category scanned before convenience.
MARKUP_CATEGORIES_RecurringFirst ==
    << [category |-> "acute", markup |-> 45, label |-> "I need it NOW",
        keywords |-> Keywords_acute],
       [category |-> "chronic", markup |-> 30, label |-> "I buy EVERY month",
        keywords |-> Keywords_chronic],
       [category |-> "recurring", markup |-> 35, label |-> "I buy this regularly",
        keywords |-> Keywords_recurring],
       [category |-> "convenience", markup |-> 40, label |-> "I just grabbed it",
        keywords |-> Keywords_convenience] >>

MARKUP_CATEGORIES ==
    << [category |-> "acute", markup |-> 45, label |-> "I need it NOW",
        keywords |-> Keywords_acute],
       [category |-> "chronic", markup |-> 30, label |-> "I buy EVERY month",
        keywords |-> Keywords_chronic],
       [category |-> "convenience", markup |-> 40, label |-> "I just grabbed it",
        keywords |-> Keywords_convenience],
       [category |-> "recurring", markup |-> 35, label |-> "I buy this regularly",
        keywords |-> Keywords_recurring] >>

RECURSIVE ScanKeywords(_, _, _)
ScanKeywords(product_lower, keywords, k) ==
    IF k > Len(keywords) THEN FALSE
    ELSE IF Contains(keywords[k], product_lower) THEN TRUE
    ELSE ScanKeywords(product_lower, keywords, k + 1)

RECURSIVE ScanCategories(_, _)
ScanCategories(product_lower, c) ==
    IF c > Len(MARKUP_CATEGORIES) THEN "convenience"
    ELSE IF ScanKeywords(product_lower, MARKUP_CATEGORIES[c].keywords, 1)
         THEN MARKUP_CATEGORIES[c].category
         ELSE ScanCategories(product_lower, c + 1)

_classify_product(product_name) == ScanCategories(lower(product_name), 1)

(***************************************************************************)
(* Calendar: what pandas computes from a timestamp.                        *)
(***************************************************************************)
None == [none |-> TRUE]

\* NaT: below every timestamp.
NaT == 0 - 1

IsLeap(y) == (y % 4 = 0 /\ y % 100 # 0) \/ y % 400 = 0

DaysInMonth(y, m) ==
    IF m = 2 THEN (IF IsLeap(y) THEN 29 ELSE 28)
    ELSE IF m \in {4, 6, 9, 11} THEN 30 ELSE 31

RECURSIVE DaysBeforeMonth(_, _)
DaysBeforeMonth(y, m) ==
    IF m = 1 THEN 0 ELSE DaysBeforeMonth(y, m - 1) + DaysInMonth(y, m - 1)

RECURSIVE DaysBeforeYear(_)
DaysBeforeYear(y) ==
    IF y <= 2024 THEN 0
    ELSE DaysBeforeYear(y - 1) + (IF IsLeap(y - 1) THEN 366 ELSE 365)

\* A date string "YYYY-MM-DD[ hh:mm]" is the record [year, month, day, tick].
DateString(y, m, d, t) == [year |-> y, month |-> m, day |-> d, tick |-> t]

ValidDateString(s) ==
    /\ DOMAIN s = {"year", "month", "day", "tick"}
    /\ s.year >= 2024
    /\ s.month \in 1..12
    /\ s.day \in 1..DaysInMonth(s.year, s.month)
    /\ s.tick \in 0..(TicksPerDay - 1)

\* pd.to_datetime(..., errors='coerce') on one value.
to_datetime(s) ==
    IF ValidDateString(s)
    THEN (DaysBeforeYear(s.year) + DaysBeforeMonth(s.year, s.month) + s.day - 1)
             * TicksPerDay + s.tick
    ELSE NaT

DayOf(ts) == ts \div TicksPerDay

RECURSIVE CivilFrom(_, _, _)
CivilFrom(y, m, rem) ==
    IF rem < DaysInMonth(y, m) THEN [year |-> y, month |-> m, day |-> rem + 1]
    ELSE CivilFrom(IF m = 12 THEN y + 1 ELSE y, IF m = 12 THEN 1 ELSE m + 1,
                   rem - DaysInMonth(y, m))

Civil(ts) == CivilFrom(2024, 1, DayOf(ts))

dt_year(ts) == Civil(ts).year

dt_month(ts) == Civil(ts).month

\* dt.to_period('M').astype(str): "YYYY-MM".
to_period_M(ts) == Civil(ts).year * 100 + Civil(ts).month

\* strftime('%Y-%m-%d')
strftime_Ymd(ts) == DateString(Civil(ts).year, Civil(ts).month, Civil(ts).day, 0)

day_order ==
    << "Monday", "Tuesday", "Wednesday", "Thursday", "Friday", "Saturday", "Sunday" >>

\* 2024-01-01 is a Monday.
dt_day_name(ts) == day_order[(DayOf(ts) % 7) + 1]

YearStartWeekday(y) == (y + (y \div 4) - (y \div 100) + (y \div 400)) % 7

WeeksInYear(y) ==
    IF YearStartWeekday(y) = 4 \/ YearStartWeekday(y - 1) = 3 THEN 53 ELSE 52

\* dt.isocalendar().week
dt_isocalendar_week(ts) ==
    LET c == Civil(ts)
        doy == DaysBeforeMonth(c.year, c.month) + c.day
        wd == (DayOf(ts) % 7) + 1
        w == (doy - wd + 10) \div 7
    IN  IF w < 1 THEN WeeksInYear(c.year - 1)
        ELSE IF w > WeeksInYear(c.year) THEN 1 ELSE w

(***************************************************************************)
(* Numbers.                                                                *)
(***************************************************************************)
Digits == << "0", "1", "2", "3", "4", "5", "6", "7", "8", "9" >>

IsDigits(s) == Len(s) > 0 /\ \A i \in 1..Len(s) : IndexIn(s[i], Digits) > 0

RECURSIVE ParseDigits(_, _)
ParseDigits(s, acc) ==
    IF Len(s) = 0 THEN acc
    ELSE ParseDigits(Tail(s), acc * 10 + (IndexIn(Head(s), Digits) - 1))

\* pd.to_numeric(..., errors='coerce').fillna(0) on one cell of text.
to_numeric_fillna0(s) ==
    IF IsDigits(s) THEN ParseDigits(s, 0)
    ELSE IF Len(s) > 1 /\ Head(s) = "-" /\ IsDigits(Tail(s))
         THEN 0 - ParseDigits(Tail(s), 0)
         ELSE 0

(***************************************************************************)
(* DataFrame.                                                              *)
(***************************************************************************)
DataFrame(cols, rows) == [cols |-> cols, rows |-> rows]

empty(df) == Len(df.rows) = 0 \/ df.cols = {}

\* df[predicate]: the rows that satisfy it, in order.
Where(df, Keep(_)) == DataFrame(df.cols, SelectSeq(df.rows, Keep))

\* df[c] = f(row) for every row: the column is added or replaced.
Assign(df, c, F(_)) ==
    DataFrame(df.cols \cup {c},
              [i \in 1..Len(df.rows) |->
                  [k \in df.cols \cup {c} |->
                      IF k = c THEN F(df.rows[i]) ELSE df.rows[i][k]]])

\* df.rename(columns=rename_map)
rename(df, rename_map) ==
    LET NewName(c) == IF c \in DOMAIN rename_map THEN rename_map[c] ELSE c
        OldName(n) == CHOOSE c \in df.cols : NewName(c) = n
        newcols == {NewName(c) : c \in df.cols}
    IN  DataFrame(newcols,
                  [i \in 1..Len(df.rows) |-> [n \in newcols |-> df.rows[i][OldName(n)]]])

(***************************************************************************)
(* DataProcessor.                                                          *)
(***************************************************************************)
\* The fields of ColumnMapping, in the order .dict() yields them.
ColumnMappingFields == << "date", "product", "quantity", "price", "total", "invoice_id" >>

\* {v: k for k, v in column_mapping.items() if v}: a later field replaces an
\* earlier one that names the same column.
RECURSIVE rename_map_from(_, _, _)
rename_map_from(column_mapping, k, acc) ==
    IF k > Len(ColumnMappingFields) THEN acc
    ELSE LET f == ColumnMappingFields[k]
         IN  IF f \in DOMAIN column_mapping
             THEN LET v == column_mapping[f]
                  IN  rename_map_from(column_mapping, k + 1,
                          [c \in DOMAIN acc \cup {v} |-> IF c = v THEN f ELSE acc[c]])
             ELSE rename_map_from(column_mapping, k + 1, acc)

\* astype(str): a missing cell reads "nan".
astype_str(cell) == IF cell = <<>> THEN << "n", "a", "n" >> ELSE cell

process_date(df) ==
    IF "date" \in df.cols
    THEN LET d1 == Assign(df, "date", LAMBDA r : to_datetime(r["date"]))
             d2 == Where(d1, LAMBDA r : r["date"] # NaT)
             d3 == Assign(d2, "year", LAMBDA r : dt_year(r["date"]))
             d4 == Assign(d3, "month", LAMBDA r : dt_month(r["date"]))
             d5 == Assign(d4, "month_year", LAMBDA r : to_period_M(r["date"]))
             d6 == Assign(d5, "day_of_week", LAMBDA r : dt_day_name(r["date"]))
         IN  Assign(d6, "week", LAMBDA r : dt_isocalendar_week(r["date"]))
    ELSE df

process_product(df) ==
    IF "product" \in df.cols
    THEN LET p1 == Assign(df, "product",
                          LAMBDA r : upper(strip(astype_str(r["product"]))))
             p2 == Where(p1, LAMBDA r : r["product"] # <<>>)
         IN  Where(p2, LAMBDA r : r["product"] # << "N", "A", "N" >>)
    ELSE df

process_quantity(df) ==
    IF "quantity" \in df.cols
    THEN Where(Assign(df, "quantity", LAMBDA r : to_numeric_fillna0(r["quantity"])),
               LAMBDA r : r["quantity"] > 0)
    ELSE df

process_price(df) ==
    IF "price" \in df.cols
    THEN Assign(df, "price", LAMBDA r : to_numeric_fillna0(r["price"]))
    ELSE df

process_total(df) ==
    IF "total" \notin df.cols /\ "quantity" \in df.cols /\ "price" \in df.cols
    THEN Assign(df, "total", LAMBDA r : r["quantity"] * r["price"])
    ELSE IF "total" \in df.cols
         THEN Assign(df, "total", LAMBDA r : to_numeric_fillna0(r["total"]))
         ELSE df

\* process_data assigning self.data before the classification: a failure
\* leaves the partly cleaned table behind.
process_data_assigning_early(processor, column_mapping) ==
    LET df0 == rename(processor.raw_data, rename_map_from(column_mapping, 1, <<>>))
        df1 == process_total(process_price(process_quantity(
                   process_product(process_date(df0)))))
    IN  IF "product" \in df1.cols
        THEN [success |-> TRUE,
              data |-> Assign(df1, "behavior_category",
                              LAMBDA r : _classify_product(r["product"]))]
        ELSE [success |-> FALSE, data |-> df1]

\* DataProcessor.process_data: <<success, data>>, data being the new value of
\* self.data.  The only statement that can raise is the classification of a
\* table without a product column; self.data then keeps its value.
process_data(processor, column_mapping) ==
    LET df0 == rename(processor.raw_data, rename_map_from(column_mapping, 1, <<>>))
        df1 == process_total(process_price(process_quantity(
                   process_product(process_date(df0)))))
    IN  IF "product" \in df1.cols
        THEN [success |-> TRUE,
              data |-> Assign(df1, "behavior_category",
                              LAMBDA r : _classify_product(r["product"]))]
        ELSE [success |-> FALSE, data |-> processor.data]

\* DataProcessor.load_file: <<success, raw_data>>.
load_file(file) ==
    IF file.ext \notin {"csv", "xlsx", "xls"} THEN [success |-> FALSE]
    ELSE IF "corrupt" \in DOMAIN file.content THEN [success |-> FALSE]
    ELSE IF empty(file.content) THEN [success |-> FALSE]
    ELSE [success |-> TRUE, raw_data |-> file.content]

get_data(processor) == processor.data

\* Series.min() / Series.max() of a column of numbers; NaT on no rows.
RECURSIVE SeqMin(_)
SeqMin(xs) ==
    IF Len(xs) = 1 THEN xs[1]
    ELSE LET m == SeqMin(Tail(xs)) IN IF xs[1] <= m THEN xs[1] ELSE m

RECURSIVE SeqMax(_)
SeqMax(xs) ==
    IF Len(xs) = 1 THEN xs[1]
    ELSE LET m == SeqMax(Tail(xs)) IN IF xs[1] >= m THEN xs[1] ELSE m

Column(df, c) == [i \in 1..Len(df.rows) |-> df.rows[i][c]]

date_min(df) == IF Len(df.rows) = 0 THEN NaT ELSE SeqMin(Column(df, "date"))

date_max(df) == IF Len(df.rows) = 0 THEN NaT ELSE SeqMax(Column(df, "date"))

\* Series.unique() as a set, Series.nunique() (missing cells are not counted).
unique(df, c) == {df.rows[i][c] : i \in 1..Len(df.rows)}

nunique(df, c) == Cardinality(unique(df, c))

\* nunique of the invoice_id column: a missing identifier is not counted.
invoice_nunique(df) == Cardinality(unique(df, "invoice_id") \ {<<>>})

\* sorted(...) of a set of numbers.
RECURSIVE SortedSeq(_)
SortedSeq(S) ==
    IF S = {} THEN <<>>
    ELSE LET m == CHOOSE x \in S : \A y \in S : x <= y
         IN  <<m>> \o SortedSeq(S \ {m})

\* DataProcessor.get_date_range
get_date_range(processor) ==
    IF processor.data = None THEN [raises |-> FALSE, value |-> <<>>]
    ELSE IF ~({"date", "month_year"} \subseteq processor.data.cols)
            \/ Len(processor.data.rows) = 0
         THEN [raises |-> TRUE]
         ELSE [raises |-> FALSE,
               value |-> [min |-> strftime_Ymd(date_min(processor.data)),
                          max |-> strftime_Ymd(date_max(processor.data)),
                          months |-> SortedSeq(unique(processor.data, "month_year"))]]

(***************************************************************************)
(* Floating-point quotients, kept exact: <<num, den>> in lowest terms with *)
(* den > 0; <<1, 0>>, <<-1, 0>> and <<0, 0>> are inf, -inf and NaN.        *)
(***************************************************************************)
Abs(x) == IF x < 0 THEN 0 - x ELSE x

Sign(x) == IF x < 0 THEN 0 - 1 ELSE IF x > 0 THEN 1 ELSE 0

RECURSIVE GCD(_, _)
GCD(a, b) == IF b = 0 THEN a ELSE GCD(b, a % b)

Rat(n, d) ==
    IF d = 0 THEN <<Sign(n), 0>>
    ELSE LET g == GCD(Abs(n), Abs(d))
         IN  <<(Sign(d) * n) \div g, Abs(d) \div g>>

IsFinite(q) == q[2] # 0

RatMul(q, k) == IF IsFinite(q) THEN Rat(q[1] * k, q[2]) ELSE q

\* a / b < c / d for b, d > 0, by whole parts and then by the reciprocals
\* of the fractional parts.
RECURSIVE FracLess(_, _, _, _)
FracLess(a, b, c, d) ==
    IF a \div b # c \div d THEN a \div b < c \div d
    ELSE IF c % d = 0 THEN FALSE
    ELSE IF a % b = 0 THEN TRUE
    ELSE FracLess(d, c % d, b, a % b)

RatLess(p, q) ==
    IF p[2] = 0 \/ q[2] = 0 THEN p[1] * q[2] < q[1] * p[2]
    ELSE FracLess(p[1], p[2], q[1], q[2])

\* Rounding up to the next integer.
RoundHalfEven_Ceiling(q) ==
    LET fl == q[1] \div q[2]
    IN  IF q[1] = fl * q[2] THEN fl ELSE fl + 1

\* round() of a finite quotient to the nearest integer, a tie to the even one.
RoundHalfEven(q) ==
    LET fl == q[1] \div q[2]
        twice == 2 * (q[1] - fl * q[2])
    IN  IF twice < q[2] THEN fl
        ELSE IF twice > q[2] THEN fl + 1
        ELSE IF fl % 2 = 0 THEN fl ELSE fl + 1

\* Series.round(1): the value in tenths; inf and NaN stay as they are.
round1(q) == IF IsFinite(q) THEN Rat(RoundHalfEven(RatMul(q, 10)), 10) ELSE q

RECURSIVE Sum(_)
Sum(xs) == IF Len(xs) = 0 THEN 0 ELSE xs[1] + Sum(Tail(xs))

sum(df, c) == Sum(Column(df, c))

(***************************************************************************)
(* Ordering of text, as Python compares strings.                           *)
(***************************************************************************)
CharOrder ==
    << " ", "-" >> \o Digits \o UpperAlpha \o LowerAlpha

RECURSIVE TextLess(_, _)
TextLess(a, b) ==
    IF Len(b) = 0 THEN FALSE
    ELSE IF Len(a) = 0 THEN TRUE
    ELSE IF a[1] = b[1] THEN TextLess(Tail(a), Tail(b))
    ELSE IndexIn(a[1], CharOrder) < IndexIn(b[1], CharOrder)

RECURSIVE SortedText(_)
SortedText(S) ==
    IF S = {} THEN <<>>
    ELSE LET m == CHOOSE x \in S : \A y \in S \ {x} : TextLess(x, y)
         IN  <<m>> \o SortedText(S \ {m})

\* The categories as groupby('behavior_category') orders them.
SortedCategories(S) ==
    SelectSeq(<< "acute", "chronic", "convenience", "recurring" >>, LAMBDA c : c \in S)

\* sort_values(field, ascending=False) on records: each record goes after the
\* records that are not smaller, so equal keys keep their order.
RECURSIVE InsertDesc(_, _, _)
InsertDesc(x, sorted, field) ==
    IF Len(sorted) = 0 THEN <<x>>
    ELSE IF sorted[1][field] >= x[field]
         THEN <<sorted[1]>> \o InsertDesc(x, Tail(sorted), field)
         ELSE <<x>> \o sorted

RECURSIVE SortDesc(_, _)
SortDesc(xs, field) ==
    IF Len(xs) = 0 THEN <<>>
    ELSE InsertDesc(xs[Len(xs)], SortDesc(SubSeq(xs, 1, Len(xs) - 1), field), field)

head(xs, n) == SubSeq(xs, 1, IF Len(xs) < n THEN Len(xs) ELSE n)

(***************************************************************************)
(* AnalyticsService.                                                       *)
(***************************************************************************)
Raises == [raises |-> TRUE]

Returns(v) == [raises |-> FALSE, value |-> v]

\* A service that keeps the filtered frame as the table it was given.
AnalyticsService_keeps_view(data, start_date, end_date) ==
    IF start_date # None /\ end_date # None
    THEN IF "date" \notin data.cols THEN Raises
         ELSE LET start == to_datetime(start_date)
                  end == to_datetime(end_date)
                  view == Where(data, LAMBDA r : r["date"] >= start /\ r["date"] <= end)
              IN  Returns([full_data |-> view, data |-> view])
    ELSE Returns([full_data |-> data, data |-> data])

\* __init__: the service, or an exception when the filter meets a table
\* without a date column.
AnalyticsService(data, start_date, end_date) ==
    IF start_date # None /\ end_date # None
    THEN IF "date" \notin data.cols THEN Raises
         ELSE LET start == to_datetime(start_date)
                  end == to_datetime(end_date)
              IN  Returns([full_data |-> data,
                           data |-> Where(data, LAMBDA r :
                                        r["date"] >= start /\ r["date"] <= end)])
    ELSE Returns([full_data |-> data, data |-> data])

\* The transaction count of a frame: distinct invoices, or its rows.
transactions(df) ==
    IF "invoice_id" \in df.cols THEN invoice_nunique(df) ELSE Len(df.rows)

\* df.groupby('month_year')[c].sum().sort_index()
monthly_sum(df, c) ==
    LET keys == SortedSeq(unique(df, "month_year"))
    IN  [i \in 1..Len(keys) |->
            [period |-> keys[i],
             value |-> sum(Where(df, LAMBDA r : r["month_year"] = keys[i]), c)]]

get_kpis(self) ==
    LET df == self.data
    IN  IF empty(df)
        THEN Returns([totalRevenue |-> 0, totalTransactions |-> 0, totalUnits |-> 0,
                      uniqueProducts |-> 0, avgTransactionValue |-> Rat(0, 1),
                      avgUnitsPerTransaction |-> Rat(0, 1), momGrowth |-> Rat(0, 1)])
        ELSE IF ~({"total", "quantity", "product", "month_year"} \subseteq df.cols)
        THEN Raises
        ELSE LET total_revenue == sum(df, "total")
                 total_transactions == transactions(df)
                 total_units == sum(df, "quantity")
                 unique_products == nunique(df, "product")
                 monthly_revenue == monthly_sum(df, "total")
                 n == Len(monthly_revenue)
                 mom_growth ==
                     IF n >= 2
                     THEN LET current == monthly_revenue[n].value
                              previous == monthly_revenue[n - 1].value
                          IN  IF previous > 0
                              THEN Rat((current - previous) * 100, previous)
                              ELSE Rat(0, 1)
                     ELSE Rat(0, 1)
             IN  Returns([totalRevenue |-> total_revenue,
                          totalTransactions |-> total_transactions,
                          totalUnits |-> total_units,
                          uniqueProducts |-> unique_products,
                          avgTransactionValue |->
                              IF total_transactions > 0
                              THEN Rat(total_revenue, total_transactions)
                              ELSE Rat(0, 1),
                          avgUnitsPerTransaction |->
                              IF total_transactions > 0
                              THEN Rat(total_units, total_transactions)
                              ELSE Rat(0, 1),
                          momGrowth |-> mom_growth])

\* The rows of one group.
Group(df, c, key) == Where(df, LAMBDA r : r[c] = key)

\* Series.pct_change() * 100 followed by fillna(0): NaN (the first row, and
\* 0/0) becomes 0, a division of a non-zero change by 0 stays infinite.
pct_change100(prev, cur) ==
    LET q == Rat((cur - prev) * 100, prev)
    IN  IF q = <<0, 0>> THEN Rat(0, 1) ELSE q

get_revenue_trend(self) ==
    LET df == self.data
    IN  IF empty(df) THEN Returns(<<>>)
        ELSE IF ~({"month_year", "total", "quantity", "invoice_id"} \subseteq df.cols)
        THEN Raises
        ELSE LET keys == SortedSeq(unique(df, "month_year"))
                 revenue(i) == sum(Group(df, "month_year", keys[i]), "total")
             IN  Returns([i \in 1..Len(keys) |->
                     [period |-> keys[i],
                      revenue |-> revenue(i),
                      units |-> sum(Group(df, "month_year", keys[i]), "quantity"),
                      transactions |-> invoice_nunique(Group(df, "month_year", keys[i])),
                      growth |-> IF i = 1 THEN Rat(0, 1)
                                 ELSE pct_change100(revenue(i - 1), revenue(i))]])

get_top_products(self, n) ==
    LET df == self.data
    IN  IF empty(df) THEN Returns(<<>>)
        ELSE IF ~({"product", "total", "quantity", "invoice_id"} \subseteq df.cols)
        THEN Raises
        ELSE LET names == SortedText(unique(df, "product"))
                 products == [i \in 1..Len(names) |->
                     [name |-> names[i],
                      revenue |-> sum(Group(df, "product", names[i]), "total"),
                      units |-> sum(Group(df, "product", names[i]), "quantity"),
                      transactions |-> invoice_nunique(Group(df, "product", names[i]))]]
                 top == head(SortDesc(products, "revenue"), n)
             IN  Returns([i \in 1..Len(top) |->
                     [name |-> top[i].name, revenue |-> top[i].revenue,
                      units |-> top[i].units, transactions |-> top[i].transactions,
                      avgQtyPerTxn |-> Rat(top[i].units, top[i].transactions)]])

CategoryLabel(c) ==
    CASE c = "acute" -> "I need it NOW"
      [] c = "chronic" -> "I buy EVERY month"
      [] c = "convenience" -> "I just grabbed it"
      [] c = "recurring" -> "I buy this regularly"

SuggestedMarkup(c) ==
    CASE c = "acute" -> 45
      [] c = "chronic" -> 30
      [] c = "convenience" -> 40
      [] c = "recurring" -> 35

get_category_performance(self) ==
    LET df == self.data
    IN  IF empty(df) THEN Returns(<<>>)
        ELSE IF ~({"behavior_category", "total", "quantity", "product"} \subseteq df.cols)
        THEN Raises
        ELSE LET cats == SortedCategories(unique(df, "behavior_category"))
                 revenue(i) == sum(Group(df, "behavior_category", cats[i]), "total")
                 total_revenue == Sum([i \in 1..Len(cats) |-> revenue(i)])
                 category == [i \in 1..Len(cats) |->
                     [category |-> cats[i],
                      revenue |-> revenue(i),
                      units |-> sum(Group(df, "behavior_category", cats[i]), "quantity"),
                      products |-> nunique(Group(df, "behavior_category", cats[i]), "product"),
                      percentage |-> round1(Rat(revenue(i) * 100, total_revenue)),
                      label |-> CategoryLabel(cats[i]),
                      suggestedMarkup |-> SuggestedMarkup(cats[i])]]
             IN  Returns(SortDesc(category, "revenue"))

\* x <= n/d for a float x: false for NaN and inf, true for -inf.
RatLeq(q, n, d) ==
    IF q[2] = 0 THEN q[1] < 0 ELSE q[1] * d <= n * q[2]

\* The classes with exclusive boundaries.
abc_class_exclusive(x) ==
    IF RatLeq(x, 8, 10) /\ x # Rat(8, 10) THEN "A"
    ELSE IF RatLeq(x, 95, 100) /\ x # Rat(95, 100) THEN "B" ELSE "C"

abc_class(x) == IF RatLeq(x, 8, 10) THEN "A" ELSE IF RatLeq(x, 95, 100) THEN "B" ELSE "C"

get_abc_analysis(self) ==
    LET df == self.data
    IN  IF empty(df) THEN Returns([summary |-> <<>>, details |-> <<>>])
        ELSE IF ~({"product", "total", "quantity"} \subseteq df.cols)
        THEN Raises
        ELSE LET names == SortedText(unique(df, "product"))
                 grouped == [i \in 1..Len(names) |->
                     [product |-> names[i],
                      revenue |-> sum(Group(df, "product", names[i]), "total"),
                      units |-> sum(Group(df, "product", names[i]), "quantity")]]
                 sorted == SortDesc(grouped, "revenue")
                 total_revenue == Sum([i \in 1..Len(sorted) |-> sorted[i].revenue])
                 cumsum(i) == Sum([j \in 1..i |-> sorted[j].revenue])
                 products == [i \in 1..Len(sorted) |->
                     [product |-> sorted[i].product,
                      revenue |-> sorted[i].revenue,
                      units |-> sorted[i].units,
                      cumulative_pct |-> Rat(cumsum(i), total_revenue),
                      class |-> abc_class(Rat(cumsum(i), total_revenue))]]
                 classes == SelectSeq(<< "A", "B", "C" >>,
                               LAMBDA k : \E i \in 1..Len(products) : products[i].class = k)
                 members(k) == SelectSeq(products, LAMBDA p : p.class = k)
                 class_revenue(k) ==
                     Sum([i \in 1..Len(members(k)) |-> members(k)[i].revenue])
             IN  Returns([summary |-> [i \in 1..Len(classes) |->
                              [class |-> classes[i],
                               count |-> Len(members(classes[i])),
                               revenue |-> class_revenue(classes[i]),
                               percentage |->
                                   round1(Rat(class_revenue(classes[i]) * 100,
                                              total_revenue))]],
                          details |-> head(products, 100)])

get_day_of_week_analysis(self) ==
    LET df == self.data
    IN  IF empty(df) THEN Returns(<<>>)
        ELSE IF ~({"day_of_week", "total", "quantity"} \subseteq df.cols)
        THEN Raises
        ELSE LET days == SelectSeq(day_order, LAMBDA d : d \in unique(df, "day_of_week"))
             IN  Returns([i \in 1..Len(days) |->
                     [day |-> days[i],
                      revenue |-> sum(Group(df, "day_of_week", days[i]), "total"),
                      units |-> sum(Group(df, "day_of_week", days[i]), "quantity")]])

RatAdd(p, q) ==
    IF p[2] = 0 \/ q[2] = 0 THEN Rat(p[1] * q[2] + q[1] * p[2], p[2] * q[2])
    ELSE LET g == GCD(p[2], q[2])
         IN  Rat(p[1] * (q[2] \div g) + q[1] * (p[2] \div g), (p[2] \div g) * q[2])

RatSub(p, q) == RatAdd(p, <<0 - q[1], q[2]>>)

RatTimes(p, q) == Rat(p[1] * q[1], p[2] * q[2])

RatDiv(p, q) == Rat(p[1] * q[2], p[2] * q[1])

RatGeq(p, q) == p[1] * q[2] >= q[1] * p[2]

RECURSIVE InsertDescRat(_, _, _)
InsertDescRat(x, sorted, field) ==
    IF Len(sorted) = 0 THEN <<x>>
    ELSE IF RatGeq(sorted[1][field], x[field])
         THEN <<sorted[1]>> \o InsertDescRat(x, Tail(sorted), field)
         ELSE <<x>> \o sorted

RECURSIVE SortDescRat(_, _)
SortDescRat(xs, field) ==
    IF Len(xs) = 0 THEN <<>>
    ELSE InsertDescRat(xs[Len(xs)], SortDescRat(SubSeq(xs, 1, Len(xs) - 1), field),
                       field)

\* Series.unique(): the distinct values in order of first appearance.
RECURSIVE UniqueInOrder(_)
UniqueInOrder(xs) ==
    IF Len(xs) = 0 THEN <<>>
    ELSE LET front == UniqueInOrder(SubSeq(xs, 1, Len(xs) - 1))
             x == xs[Len(xs)]
         IN  IF \E j \in 1..Len(front) : front[j] = x THEN front ELSE Append(front, x)

\* The monthly trend of one product's rows, by period.
monthly_trend(product_df, with_transactions) ==
    LET keys == SortedSeq(unique(product_df, "month_year"))
    IN  [i \in 1..Len(keys) |->
            LET g == Group(product_df, "month_year", keys[i])
                base == [period |-> keys[i], revenue |-> sum(g, "total"),
                         units |-> sum(g, "quantity")]
            IN  IF with_transactions
                THEN [period |-> base.period, revenue |-> base.revenue,
                      units |-> base.units, transactions |-> invoice_nunique(g)]
                ELSE base]

MarkupOf(category) ==
    LET hit == SelectSeq(MARKUP_CATEGORIES, LAMBDA d : d.category = category)
    IN  IF Len(hit) > 0 THEN hit[1].markup ELSE 35

LabelOf(category) ==
    LET hit == SelectSeq(MARKUP_CATEGORIES, LAMBDA d : d.category = category)
    IN  IF Len(hit) > 0 THEN hit[1].label ELSE "Unknown"

\* get_product_details: None when the product has no row in the view.
get_product_details(self, product_name) ==
    LET df == self.data
        product_df == Group(df, "product", product_name)
    IN  IF empty(product_df) THEN Returns(None)
        ELSE IF ~({"month_year", "total", "quantity", "invoice_id",
                   "behavior_category"} \subseteq df.cols)
        THEN Raises
        ELSE LET total_units == sum(product_df, "quantity")
                 total_txns == invoice_nunique(product_df)
                 category == product_df.rows[1]["behavior_category"]
             IN  Returns([name |-> product_name,
                          totalRevenue |-> sum(product_df, "total"),
                          totalUnits |-> total_units,
                          totalTransactions |-> total_txns,
                          avgQtyPerTransaction |->
                              IF total_txns > 0 THEN Rat(total_units, total_txns)
                              ELSE Rat(0, 1),
                          category |-> category,
                          categoryLabel |-> LabelOf(category),
                          suggestedMarkup |-> MarkupOf(category),
                          monthlyTrend |-> monthly_trend(product_df, TRUE)])

\* str.split(): the maximal runs of non-blank characters.
RECURSIVE split(_)
split(s) ==
    LET t == lstrip(s)
    IN  IF Len(t) = 0 THEN <<>>
        ELSE LET n == IF \E i \in 1..Len(t) : t[i] = " "
                      THEN (CHOOSE i \in 1..Len(t) :
                                t[i] = " " /\ \A j \in 1..(i - 1) : t[j] # " ") - 1
                      ELSE Len(t)
             IN  <<SubSeq(t, 1, n)>> \o split(SubSeq(t, n + 1, Len(t)))

search_products(self, query, limit) ==
    LET full == self.full_data
    IN  IF ~({"product", "total"} \subseteq full.cols) THEN Raises
        ELSE LET products == UniqueInOrder(Column(full, "product"))
                 query_upper == strip(upper(query))
                 exact_matches == SelectSeq(products, LAMBDA q : Contains(query_upper, q))
                 query_parts == split(query_upper)
                 partial_matches ==
                     SelectSeq(products, LAMBDA q :
                         \E k \in 1..Len(query_parts) : Contains(query_parts[k], q))
                 matches == IF Len(exact_matches) = 0 THEN partial_matches
                            ELSE exact_matches
                 keyed == [i \in 1..Len(matches) |->
                              [name |-> matches[i],
                               revenue |-> sum(Group(full, "product", matches[i]), "total")]]
             IN  Returns(head(SortDesc(keyed, "revenue"), limit))

\* A comparison that ends at the first product without rows.
RECURSIVE compare_rows_until_missing(_, _, _)
compare_rows_until_missing(df, products, k) ==
    IF k > Len(products) THEN <<>>
    ELSE LET product_df == Group(df, "product", products[k])
         IN  IF empty(product_df) THEN <<>>
             ELSE << [name |-> products[k],
                      totalRevenue |-> sum(product_df, "total"),
                      totalUnits |-> sum(product_df, "quantity"),
                      avgQtyPerTxn |->
                          IF "invoice_id" \in product_df.cols
                          THEN Rat(sum(product_df, "quantity"),
                                   invoice_nunique(product_df))
                          ELSE Rat(Len(product_df.rows), 1),
                      monthlyTrend |-> monthly_trend(product_df, FALSE)] >>
                  \o compare_rows_until_missing(df, products, k + 1)

RECURSIVE compare_rows(_, _, _)
compare_rows(df, products, k) ==
    IF k > Len(products) THEN <<>>
    ELSE LET product_df == Group(df, "product", products[k])
         IN  IF empty(product_df) THEN compare_rows(df, products, k + 1)
             ELSE << [name |-> products[k],
                      totalRevenue |-> sum(product_df, "total"),
                      totalUnits |-> sum(product_df, "quantity"),
                      avgQtyPerTxn |->
                          IF "invoice_id" \in product_df.cols
                          THEN Rat(sum(product_df, "quantity"),
                                   invoice_nunique(product_df))
                          ELSE Rat(Len(product_df.rows), 1),
                      monthlyTrend |-> monthly_trend(product_df, FALSE)] >>
                  \o compare_rows(df, products, k + 1)

compare_products(self, products) ==
    LET df == self.data
        found == \E k \in 1..Len(products) : ~empty(Group(df, "product", products[k]))
    IN  IF found /\ ~({"month_year", "total", "quantity"} \subseteq df.cols)
        THEN Raises
        ELSE Returns([products |-> compare_rows(df, products, 1)])

\* The difference of the two calendar dates, the time of day dropped.
days_between_calendar(a, b) == DayOf(a) - DayOf(b)

\* (a - b).days for two timestamps a >= b.
days_between(a, b) == (a - b) \div TicksPerDay

\* max(date_range / 30, 1)
elapsed_months(df) ==
    LET date_range == days_between(date_max(df), date_min(df))
    IN  IF date_range > 30 THEN Rat(date_range, 30) ELSE Rat(1, 1)

\* Series.quantile(0.9) of finite quotients, by linear interpolation.
RECURSIVE SortedRats(_)
SortedRats(xs) ==
    IF Len(xs) = 0 THEN <<>>
    ELSE LET rest == SortedRats(Tail(xs))
             below == SelectSeq(rest, LAMBDA q : RatLess(q, xs[1]))
             above == SelectSeq(rest, LAMBDA q : ~RatLess(q, xs[1]))
         IN  below \o <<xs[1]>> \o above

quantile90(xs) ==
    LET v == SortedRats(xs)
        n == Len(v)
        lo == (9 * (n - 1)) \div 10
        frac == Rat(9 * (n - 1) - 10 * lo, 10)
    IN  IF lo + 1 >= n THEN v[n]
        ELSE RatAdd(v[lo + 1], RatTimes(RatSub(v[lo + 2], v[lo + 1]), frac))

\* The per-product velocity frame of get_inventory_alerts, in product order.
velocity_frame(df) ==
    LET names == SortedText(unique(df, "product"))
        months == elapsed_months(df)
    IN  [i \in 1..Len(names) |->
            LET g == Group(df, "product", names[i])
            IN  [product |-> names[i],
                 revenue |-> sum(g, "total"),
                 units |-> sum(g, "quantity"),
                 first_sale |-> date_min(g),
                 last_sale |-> date_max(g),
                 monthly_revenue |-> RatDiv(Rat(sum(g, "total"), 1), months),
                 monthly_units |-> RatDiv(Rat(sum(g, "quantity"), 1), months),
                 days_since_last_sale |-> days_between(date_max(df), date_max(g))]]

get_inventory_alerts(self) ==
    LET df == self.data
    IN  IF empty(df)
        THEN Returns([fastMovers |-> <<>>, deadStock |-> <<>>,
                      fastMoversCount |-> 0, deadStockCount |-> 0])
        ELSE IF ~({"date", "product", "total", "quantity"} \subseteq df.cols)
        THEN Raises
        ELSE LET velocity == velocity_frame(df)
                 threshold ==
                     quantile90([i \in 1..Len(velocity) |-> velocity[i].monthly_revenue])
                 fast == SelectSeq(velocity,
                             LAMBDA v : RatGeq(v.monthly_revenue, threshold))
                 dead == SelectSeq(velocity, LAMBDA v : v.days_since_last_sale >= 60)
                 fast_movers == head(fast, 10)
                 dead_stock == head(SortDesc(dead, "days_since_last_sale"), 10)
             IN  Returns([fastMovers |-> [i \in 1..Len(fast_movers) |->
                              [product |-> fast_movers[i].product,
                               monthly_revenue |-> fast_movers[i].monthly_revenue,
                               monthly_units |-> fast_movers[i].monthly_units]],
                          deadStock |-> [i \in 1..Len(dead_stock) |->
                              [product |-> dead_stock[i].product,
                               days_since_last_sale |-> dead_stock[i].days_since_last_sale,
                               revenue |-> dead_stock[i].revenue]],
                          fastMoversCount |-> Len(fast),
                          deadStockCount |-> Len(dead)])

get_reorder_suggestions(self, forecast_months) ==
    LET df == self.data
    IN  IF empty(df) THEN Returns(<<>>)
        ELSE IF ~({"date", "product", "quantity", "total", "behavior_category"}
                      \subseteq df.cols)
        THEN Raises
        ELSE LET names == SortedText(unique(df, "product"))
                 months == elapsed_months(df)
                 velocity == [i \in 1..Len(names) |->
                     LET g == Group(df, "product", names[i])
                         monthly_units == RatDiv(Rat(sum(g, "quantity"), 1), months)
                     IN  [product |-> names[i],
                          monthly_units |-> monthly_units,
                          monthly_revenue |-> RatDiv(Rat(sum(g, "total"), 1), months),
                          category |-> g.rows[1]["behavior_category"],
                          suggested_reorder |->
                              RoundHalfEven(RatTimes(monthly_units,
                                                     Rat(forecast_months * 12, 10)))]]
             IN  Returns(head(SortDescRat(velocity, "monthly_revenue"), 50))

month_names ==
    << "January", "February", "March", "April", "May", "June", "July", "August",
       "September", "October", "November", "December" >>

\* idxmax / idxmin over the index column: the first row holding the extreme,
\* NaN rows skipped.  Better(a, b): a is nearer the extreme than b.
FirstExtreme(rows, Better(_, _)) ==
    LET ok == {i \in 1..Len(rows) : rows[i].index # <<0, 0>>}
    IN  CHOOSE i \in ok :
            /\ \A j \in ok : ~Better(rows[j].index, rows[i].index)
            /\ \A j \in ok : (j < i) => Better(rows[i].index, rows[j].index)

get_seasonality_analysis(self) ==
    LET df == self.data
    IN  IF empty(df) THEN Returns([hasSeasonality |-> FALSE, patterns |-> <<>>])
        ELSE IF "month_year" \notin df.cols THEN Raises
        ELSE IF nunique(df, "month_year") < 3
        THEN Returns([hasSeasonality |-> FALSE, patterns |-> <<>>])
        ELSE IF ~({"month", "total", "quantity"} \subseteq df.cols) THEN Raises
        ELSE LET keys == SortedSeq(unique(df, "month"))
                 revenue(i) == sum(Group(df, "month", keys[i]), "total")
                 overall_avg == Rat(Sum([i \in 1..Len(keys) |-> revenue(i)]), Len(keys))
                 monthly == [i \in 1..Len(keys) |->
                     [month_name |-> month_names[keys[i]],
                      revenue |-> revenue(i),
                      index |-> round1(RatMul(RatDiv(Rat(revenue(i), 1), overall_avg),
                                              100))]]
             IN  IF \A i \in 1..Len(monthly) : monthly[i].index = <<0, 0>>
                 THEN Raises
                 ELSE LET peak == monthly[FirstExtreme(monthly,
                                      LAMBDA a, b : RatLess(b, a))]
                          low == monthly[FirstExtreme(monthly, RatLess)]
                      IN  Returns([hasSeasonality |-> TRUE,
                                   patterns |-> monthly,
                                   peakMonth |-> peak.month_name,
                                   peakIndex |-> peak.index,
                                   lowMonth |-> low.month_name,
                                   lowIndex |-> low.index])

\* generate_preliminary_analysis.  A message built by an f-string is the
\* record of its kind and of the numbers it prints.
generate_preliminary_analysis(self) ==
    LET df == self.data
    IN  IF empty(df) THEN Returns([error |-> "No data available"])
        ELSE IF ~({"total", "product", "date", "month_year", "behavior_category"}
                      \subseteq df.cols)
        THEN Raises
        ELSE LET unique_products == nunique(df, "product")
                 monthly == monthly_sum(df, "total")
                 n == Len(monthly)
                 recent_growth ==
                     IF n >= 2 /\ monthly[n - 1].value > 0
                     THEN Rat((monthly[n].value - monthly[n - 1].value) * 100,
                              monthly[n - 1].value)
                     ELSE Rat(0, 1)
                 overall_trend ==
                     IF n >= 2
                     THEN (IF monthly[n].value > monthly[1].value THEN "growing"
                           ELSE "declining")
                     ELSE "stable"
                 names == SortedText(unique(df, "product"))
                 by_product == [i \in 1..Len(names) |->
                     [product |-> names[i],
                      total |-> sum(Group(df, "product", names[i]), "total"),
                      last_sale |-> date_max(Group(df, "product", names[i]))]]
                 products_by_revenue == SortDesc(by_product, "total")
                 grand == Sum([i \in 1..Len(by_product) |-> by_product[i].total])
                 cumsum(i) ==
                     Rat(Sum([j \in 1..i |-> products_by_revenue[j].total]), grand)
                 ranks == 1..Len(products_by_revenue)
                 class_a_count == Cardinality({i \in ranks : RatLeq(cumsum(i), 8, 10)})
                 class_b_count ==
                     Cardinality({i \in ranks : cumsum(i) # <<0, 0>>
                                      /\ ~RatLeq(cumsum(i), 8, 10)
                                      /\ RatLeq(cumsum(i), 95, 100)})
                 class_c_count ==
                     Cardinality({i \in ranks : cumsum(i) # <<0, 0>>
                                      /\ ~RatLeq(cumsum(i), 95, 100)})
                 dead_stock_count ==
                     Cardinality({i \in 1..Len(by_product) :
                         days_between(date_max(df), by_product[i].last_sale) >= 60})
                 cats == SortedCategories(unique(df, "behavior_category"))
                 issues ==
                     (IF RatLess(recent_growth, Rat(0 - 10, 1))
                      THEN << [issue |-> "revenue declined", value |-> recent_growth] >>
                      ELSE <<>>)
                     \o (IF dead_stock_count > 50
                         THEN << [issue |-> "dead stock", value |-> dead_stock_count] >>
                         ELSE <<>>)
                     \o (IF 2 * class_c_count > unique_products
                         THEN << [issue |-> "class C over 50%"] >>
                         ELSE <<>>)
                 recommendations ==
                     << [recommendation |-> "focus on class A", value |-> class_a_count] >>
                     \o (IF dead_stock_count > 0
                         THEN << [recommendation |-> "review dead stock",
                                  value |-> dead_stock_count] >>
                         ELSE <<>>)
             IN  Returns([summary |->
                              [totalRevenue |-> sum(df, "total"),
                               totalTransactions |-> transactions(df),
                               uniqueProducts |-> unique_products,
                               periodDays |-> days_between(date_max(df), date_min(df)),
                               recentGrowth |-> recent_growth,
                               overallTrend |-> overall_trend],
                          topProducts |-> head(products_by_revenue, 10),
                          categoryBreakdown |-> [i \in 1..Len(cats) |->
                              [category |-> cats[i],
                               total |-> sum(Group(df, "behavior_category", cats[i]),
                                             "total")]],
                          abcSummary |-> [classA |-> class_a_count,
                                          classB |-> class_b_count,
                                          classC |-> class_c_count],
                          deadStockCount |-> dead_stock_count,
                          issues |-> issues,
                          recommendations |-> recommendations])

(***************************************************************************)
(* Forecasting: the monthly series and the three methods.                  *)
(***************************************************************************)
\* An HTTPException raised by a handler or by a helper it calls.
\* An optional text parameter left out, or given empty: `if product` and
\* `type or forecast_type` treat the two alike.
NoProduct == <<>>

NoType == ""

HTTPException(status, detail) == [status |-> status, body |-> [detail |-> detail]]

_normalize_forecast_type(forecast_type) ==
    IF forecast_type \in {"total_revenue", "revenue", "sales", "amount"} THEN "revenue"
    ELSE IF forecast_type \in {"units", "quantity", "qty"} THEN "units"
    ELSE IF forecast_type \in {"transactions", "txns", "transaction", "orders"}
         THEN "transactions"
         ELSE "revenue"

txn_col_candidates ==
    << "transaction_id", "invoice", "invoice_no", "receipt", "receipt_no", "bill_no" >>

\* The period k months after a period key.
PeriodAdd(period, k) ==
    LET idx == (period \div 100) * 12 + (period % 100) - 1 + k
    IN  (idx \div 12) * 100 + (idx % 12) + 1

\* The first day of the year of the period.
period_start_of_year(period) == to_datetime(DateString(period \div 100, 1, 1, 0))

\* pd.to_datetime(period + "-01")
period_start(period) == to_datetime(DateString(period \div 100, period % 100, 1, 0))

\* prepare_time_series: the series as a sequence of rows in ds order, or the
\* HTTP error.  It works on a copy of data.
prepare_time_series(data, product, forecast_type) ==
    LET df == IF product # NoProduct
              THEN Group(data, "product", product) ELSE data
    IN  IF empty(df) THEN [status |-> 200, ts |-> <<>>]
        ELSE IF "month_year" \notin df.cols
        THEN HTTPException(400, "Missing required column: month_year")
        ELSE IF "product" \notin df.cols
        THEN HTTPException(400, "Missing required column: product")
        ELSE LET has_total == "total" \in df.cols
                 has_qty == "quantity" \in df.cols
                 found == SelectSeq(txn_col_candidates, LAMBDA c : c \in df.cols)
                 ft == _normalize_forecast_type(forecast_type)
                 keys == SortedSeq(unique(df, "month_year"))
                 row(i) ==
                     LET g == Group(df, "month_year", keys[i])
                         revenue == IF has_total THEN sum(g, "total") ELSE 0
                         units == IF has_qty THEN sum(g, "quantity") ELSE 0
                         txns == IF Len(found) > 0
                                 THEN Cardinality(unique(g, found[1]) \ {<<>>})
                                 ELSE Len(g.rows)
                     IN  [period |-> keys[i],
                          ds |-> period_start(keys[i]),
                          value |-> IF ft = "units" THEN units
                                    ELSE IF ft = "transactions" THEN txns
                                    ELSE revenue,
                          revenue |-> revenue,
                          units |-> units,
                          transactions |-> txns]
             IN  IF ~has_total /\ ~has_qty /\ Len(found) = 0
                 THEN HTTPException(500, "Internal Server Error")
                 ELSE [status |-> 200, ts |-> [i \in 1..Len(keys) |-> row(i)]]

_trend_label(x) ==
    IF RatLess(Rat(0, 1), x) THEN "up" ELSE IF RatLess(x, Rat(0, 1)) THEN "down" ELSE "flat"

RatMax0(q) == IF RatLess(q, Rat(0, 1)) THEN Rat(0, 1) ELSE q

\* A forecast point whose value is not floored at 0.
ForecastPoint_unfloored(period, value, pct) ==
    [period |-> period,
     forecast |-> value,
     lower |-> RatMax0(RatTimes(value, Rat(100 - pct, 100))),
     upper |-> RatTimes(value, Rat(100 + pct, 100))]

\* One forecast point: the value floored at 0 and its band of pct percent.
ForecastPoint(period, value, pct) ==
    LET forecast_value == RatMax0(value)
    IN  [period |-> period,
         forecast |-> forecast_value,
         lower |-> RatMax0(RatTimes(forecast_value, Rat(100 - pct, 100))),
         upper |-> RatTimes(forecast_value, Rat(100 + pct, 100))]

Mean(xs) == Rat(Sum(xs), Len(xs))

RECURSIVE RatSum(_)
RatSum(qs) == IF Len(qs) = 0 THEN Rat(0, 1) ELSE RatAdd(qs[1], RatSum(Tail(qs)))

Values(ts) == [i \in 1..Len(ts) |-> ts[i].value]

\* forecast_moving_average: None, or the points and the trend.
forecast_moving_average(ts, periods, window) ==
    IF Len(ts) < (IF window > 3 THEN window ELSE 3) THEN None
    ELSE LET series == Values(ts)
             n == Len(series)
             ma(i) == Mean(SubSeq(series, i - window + 1, i))
             last_ma == ma(n)
             trend == IF n - window + 1 >= 2 THEN RatSub(ma(n), ma(n - 1)) ELSE Rat(0, 1)
         IN  [forecasts |-> [i \in 1..periods |->
                  ForecastPoint(PeriodAdd(ts[n].period, i),
                                RatAdd(last_ma, RatMul(trend, i)), 15)],
              trend |-> trend]

\* The float nearest to q, floats being kept to three decimals.
float(q) ==
    IF IsFinite(q)
    THEN Rat((q[1] \div q[2]) * 1000 + RoundHalfEven(Rat((q[1] % q[2]) * 1000, q[2])),
             1000)
    ELSE q

\* ewm(alpha, adjust=False).mean() up to row i, alpha = a / 10: each step
\* of the recursion yields a float.
RECURSIVE ewm_mean(_, _, _)
ewm_mean(series, i, a) ==
    IF i = 1 THEN Rat(series[1], 1)
    ELSE float(RatAdd(RatTimes(Rat(10 - a, 10), ewm_mean(series, i - 1, a)),
                      Rat(a * series[i], 10)))

forecast_exponential_smoothing(ts, periods, alpha10) ==
    IF Len(ts) < 3 THEN None
    ELSE LET series == Values(ts)
             n == Len(series)
             last_ema == ewm_mean(series, n, alpha10)
             trend == RatSub(last_ema, ewm_mean(series, n - 1, alpha10))
         IN  [forecasts |-> [i \in 1..periods |->
                  ForecastPoint(PeriodAdd(ts[n].period, i),
                                RatAdd(last_ema, RatMul(trend, i)), 15)],
              trend |-> trend]

\* The seasonal index of each month of the year: the month's mean over the
\* overall mean, and 1.0 for a month the series does not have.
seasonal_index_of(ts, overall_avg, m) ==
    LET idx == {i \in 1..Len(ts) : ts[i].period % 100 = m}
    IN  IF idx = {} THEN Rat(1, 1)
        ELSE RatDiv(Rat(Sum([k \in 1..Len(ts) |-> IF k \in idx THEN ts[k].value ELSE 0]),
                        Cardinality(idx)),
                    overall_avg)

overall_average(mean_all) == IF mean_all = Rat(0, 1) THEN Rat(1, 1) ELSE mean_all

seasonal_index_map(ts) ==
    [m \in 1..12 |-> seasonal_index_of(ts, overall_average(Mean(Values(ts))), m)]

\* value / seasonal_index.replace(0, 1.0)
deseasonalized(ts, seasonal_index) ==
    [i \in 1..Len(ts) |->
        RatDiv(Rat(ts[i].value, 1),
               IF seasonal_index[ts[i].period % 100] = Rat(0, 1) THEN Rat(1, 1)
               ELSE seasonal_index[ts[i].period % 100])]

\* The deviations of t = 0 .. n-1 from their mean.
t_deviations(n) == [i \in 1..n |-> RatSub(Rat(i - 1, 1), Rat(n - 1, 2))]

squares(dx) == RatSum([i \in 1..Len(dx) |-> RatTimes(dx[i], dx[i])])

slope_of(dx, y, y_mean, denom) ==
    IF denom # Rat(0, 1)
    THEN RatDiv(RatSum([i \in 1..Len(dx) |-> RatTimes(dx[i], RatSub(y[i], y_mean))]),
                denom)
    ELSE Rat(0, 1)

\* The seasonal points with the band of the other two methods.
seasonal_points_band_15(ts, periods, seasonal_index, slope, intercept) ==
    [forecasts |-> [i \in 1..periods |->
         ForecastPoint(PeriodAdd(ts[Len(ts)].period, i),
                       RatTimes(RatAdd(intercept, RatMul(slope, Len(ts) - 1 + i)),
                                seasonal_index[PeriodAdd(ts[Len(ts)].period, i) % 100]),
                       15)],
     slope |-> slope,
     seasonal_indices |->
         [m \in {ts[i].period % 100 : i \in 1..Len(ts)} |->
             Rat(RoundHalfEven(RatMul(seasonal_index[m], 100)), 100)]]

seasonal_points(ts, periods, seasonal_index, slope, intercept) ==
    [forecasts |-> [i \in 1..periods |->
         ForecastPoint(PeriodAdd(ts[Len(ts)].period, i),
                       RatTimes(RatAdd(intercept, RatMul(slope, Len(ts) - 1 + i)),
                                seasonal_index[PeriodAdd(ts[Len(ts)].period, i) % 100]),
                       20)],
     slope |-> slope,
     seasonal_indices |->
         [m \in {ts[i].period % 100 : i \in 1..Len(ts)} |->
             Rat(RoundHalfEven(RatMul(seasonal_index[m], 100)), 100)]]

seasonal_line(ts, periods, seasonal_index, y_mean, slope) ==
    seasonal_points(ts, periods, seasonal_index, slope,
                    RatSub(y_mean, RatTimes(slope, Rat(Len(ts) - 1, 2))))

seasonal_fit(ts, periods, seasonal_index, dx, y, y_mean) ==
    seasonal_line(ts, periods, seasonal_index, y_mean,
                  slope_of(dx, y, y_mean, squares(dx)))

seasonal_trend(ts, periods, seasonal_index, y) ==
    seasonal_fit(ts, periods, seasonal_index, t_deviations(Len(ts)), y,
                 RatDiv(RatSum(y), Rat(Len(ts), 1)))

seasonal_from(ts, periods, seasonal_index) ==
    seasonal_trend(ts, periods, seasonal_index, deseasonalized(ts, seasonal_index))

\* forecast_seasonal: None, or the points, the slope and the indices rounded
\* to two decimals.
forecast_seasonal(ts, periods) ==
    IF Len(ts) < 6 THEN None ELSE seasonal_from(ts, periods, seasonal_index_map(ts))

_make_result(ts, forecasts, method_name, forecast_type, trend_value) ==
    [metric |-> _normalize_forecast_type(forecast_type),
     historical |-> [i \in 1..Len(ts) |-> [period |-> ts[i].period, value |-> ts[i].value]],
     forecast |-> forecasts,
     method |-> method_name,
     lastActual |-> ts[Len(ts)].value,
     forecastAvg |->
         IF Len(forecasts) > 0
         THEN RatDiv(RatSum([i \in 1..Len(forecasts) |-> forecasts[i].forecast]),
                     Rat(Len(forecasts), 1))
         ELSE Rat(0, 1),
     trend |-> _trend_label(trend_value)]

(***************************************************************************)
(* Inputs of the requests.                                                 *)
(***************************************************************************)
SessionIds == {"s1", "s2"}

\* Text values used by the inputs.
T_ENSURE == << "e", "n", "s", "u", "r", "e" >>

T_PARA == << "P", "a", "r", "a", "c", "e", "t", "a", "m", "o", "l" >>

T_COLA == << " ", "c", "o", "l", "a", " " >>

T_METFORMIN == << "M", "E", "T", "F", "O", "R", "M", "I", "N" >>

Num(n) == <<Digits[n + 1]>>

RawRow(date, item, qty, amount, inv) ==
    [Date |-> date, Item |-> item, Qty |-> qty, Amount |-> amount, Inv |-> inv]

RawColumns == {"Date", "Item", "Qty", "Amount", "Inv"}

\* The files of the upload requests: four months of sales with a sale in
\* the afternoon of 2024-01-31 and a refund; a file whose rows are all
\* dropped by the cleaning; a file that cannot be read; an unsupported one.
SalesFile ==
    [ext |-> "csv",
     content |-> DataFrame(RawColumns,
        << RawRow(DateString(2024, 1, 31, 1), T_PARA, Num(2), Num(8), <<"a">>),
           RawRow(DateString(2024, 2, 10, 0), T_ENSURE, Num(1), Num(4), <<"b">>),
           RawRow(DateString(2024, 2, 30, 0), T_COLA, Num(1), Num(1), <<"c">>),
           RawRow(DateString(2024, 3, 5, 0), T_COLA, Num(3), << "-", "2" >>, <<"b">>),
           RawRow(DateString(2024, 4, 2, 0), T_METFORMIN, Num(1), Num(6), <<>>) >>)]

DroppedFile ==
    [ext |-> "xlsx",
     content |-> DataFrame(RawColumns,
        << RawRow(DateString(2024, 1, 5, 0), T_COLA, Num(0), Num(3), <<"a">>) >>)]

CorruptFile == [ext |-> "csv", content |-> [corrupt |-> TRUE]]

TextFile == [ext |-> "txt", content |-> DataFrame(RawColumns, <<>>)]

UploadFiles == {SalesFile, DroppedFile, CorruptFile, TextFile}

\* The column mappings of the process requests, as the request carries them
\* (a field left out is the field the caller left empty).
FullMapping ==
    [date |-> "Date", product |-> "Item", quantity |-> "Qty", total |-> "Amount",
     invoice_id |-> "Inv"]

PriceMapping ==
    [date |-> "Date", product |-> "Item", quantity |-> "Qty", price |-> "Amount"]

NoProductMapping == [date |-> "Date", product |-> "Name", quantity |-> "Qty"]

NoQuantityMapping == [date |-> "Date", product |-> "Item"]

ColumnMappings == {FullMapping, PriceMapping, NoProductMapping, NoQuantityMapping}

\* start_date / end_date of a request: absent, or a date string.
DateParams == {None, DateString(2024, 1, 31, 0), DateString(2024, 3, 1, 0)}

ProductParams == {<< "C", "O", "L", "A" >>, << "X" >>}

SearchParams == {<< "c", "o" >>, << "x", " ", "m", "e", "t" >>}

PeriodsParams == {1, 3}

MethodParams == {"auto", "moving_average", "exponential", "seasonal"}

ForecastTypeParams == {"revenue", "units"}

TypeParams == {NoType, "total_revenue"}

CompareParams == {<< << "X" >>, << "C", "O", "L", "A" >>, T_METFORMIN >>}

(***************************************************************************)
(* The routers.  A response is the operation, its session and arguments,   *)
(* the HTTP status and the body.                                           *)
(***************************************************************************)
Response(op, session_id, args, status, body) ==
    [op |-> op, session_id |-> session_id, args |-> args, status |-> status,
     body |-> body]

\* upload_file: the session is registered only once the file is loaded.
\* A request is served once the previous response has been delivered.
Idle == resp.op = "none"

upload_file ==
    /\ Idle
    /\ \E session_id \in SessionIds \ DOMAIN data_store, file \in UploadFiles :
        LET loaded == load_file(file)
        IN  IF ~loaded.success
            THEN /\ resp' = Response("upload_file", session_id, <<>>, 400,
                                     [detail |-> "load failed"])
                 /\ UNCHANGED data_store
            ELSE /\ data_store' =
                        [s \in DOMAIN data_store \cup {session_id} |->
                            IF s = session_id
                            THEN [raw_data |-> loaded.raw_data, data |-> None]
                            ELSE data_store[s]]
                 /\ resp' = Response("upload_file", session_id, <<>>, 200,
                                     [sessionId |-> session_id,
                                      columns |-> loaded.raw_data.cols,
                                      rowCount |-> Len(loaded.raw_data.rows)])

\* POST /process
api_process_data ==
    /\ Idle
    /\ \E session_id \in SessionIds, column_mapping \in ColumnMappings :
        IF session_id \notin DOMAIN data_store
        THEN /\ resp' = Response("process_data", session_id, column_mapping, 404,
                                 [detail |-> "Session not found"])
             /\ UNCHANGED data_store
        ELSE IF ~({"date", "product", "quantity"} \subseteq DOMAIN column_mapping)
        THEN /\ resp' = Response("process_data", session_id, column_mapping, 400,
                                 [detail |-> "Missing required columns"])
             /\ UNCHANGED data_store
        ELSE LET done == process_data(data_store[session_id], column_mapping)
                 data == done.data
             IN  /\ data_store' = [data_store EXCEPT ![session_id].data = data]
                 /\ resp' =
                      IF ~done.success
                      THEN Response("process_data", session_id, column_mapping, 400,
                                    [detail |-> "Error processing"])
                      ELSE IF "date" \notin data.cols \/ Len(data.rows) = 0
                      THEN Response("process_data", session_id, column_mapping, 500,
                                    [detail |-> "Internal Server Error"])
                      ELSE Response("process_data", session_id, column_mapping, 200,
                               [success |-> TRUE,
                                summary |->
                                   [totalRows |-> Len(data.rows),
                                    uniqueProducts |-> nunique(data, "product"),
                                    dateRange |->
                                       [start |-> strftime_Ymd(date_min(data)),
                                        end |-> strftime_Ymd(date_max(data))],
                                    monthsOfData |-> nunique(data, "month_year")]])

\* GET /session/{session_id}
check_session ==
    /\ Idle
    /\ \E session_id \in SessionIds :
        /\ resp' = Response("check_session", session_id, <<>>, 200,
                      IF session_id \notin DOMAIN data_store
                      THEN [exists |-> FALSE, hasData |-> FALSE]
                      ELSE [exists |-> TRUE,
                            hasData |-> get_data(data_store[session_id]) # None])
        /\ UNCHANGED data_store

(***************************************************************************)
(* The analytics router.                                                   *)
(***************************************************************************)
\* get_analytics: the service of the session, or the HTTP error.
get_analytics(session_id, start_date, end_date) ==
    IF session_id \notin DOMAIN data_store
    THEN HTTPException(404, "Session not found")
    ELSE LET data == get_data(data_store[session_id])
         IN  IF data = None THEN HTTPException(400, "Data not processed yet")
             ELSE LET made == AnalyticsService(data, start_date, end_date)
                  IN  IF made.raises THEN HTTPException(500, "Internal Server Error")
                      ELSE [status |-> 200, analytics |-> made.value]

\* A handler that builds the service and returns what Method computes on it.
\* The table the session holds afterwards is the object the service was
\* given (self.full_data).
Respond(op, session_id, args, full_data, out) ==
    /\ resp' = IF out.raises
               THEN IF "status" \in DOMAIN out
                    THEN Response(op, session_id, args, out.status, out.body)
                    ELSE Response(op, session_id, args, 500,
                                  [detail |-> "Internal Server Error"])
               ELSE Response(op, session_id, args, 200, out.value)
    /\ data_store' = [data_store EXCEPT ![session_id].data = full_data]

ServeFrom(op, session_id, args, got, Method(_)) ==
    IF got.status # 200
    THEN /\ resp' = Response(op, session_id, args, got.status, got.body)
         /\ UNCHANGED data_store
    ELSE Respond(op, session_id, args, got.analytics.full_data, Method(got.analytics))

Serve(op, session_id, args, start_date, end_date, Method(_)) ==
    ServeFrom(op, session_id, args, get_analytics(session_id, start_date, end_date),
              Method)

Range(start_date, end_date) == [start_date |-> start_date, end_date |-> end_date]

\* GET /date-range/{session_id}
api_get_date_range ==
    /\ Idle
    /\ \E session_id \in SessionIds :
        /\ resp' =
             IF session_id \notin DOMAIN data_store
             THEN Response("get_date_range", session_id, <<>>, 404,
                           [detail |-> "Session not found"])
             ELSE LET out == get_date_range(data_store[session_id])
                  IN  IF out.raises
                      THEN Response("get_date_range", session_id, <<>>, 500,
                                    [detail |-> "Internal Server Error"])
                      ELSE Response("get_date_range", session_id, <<>>, 200, out.value)
        /\ UNCHANGED data_store

api_get_kpis ==
    /\ Idle
    /\ \E session_id \in SessionIds, start_date \in DateParams, end_date \in DateParams :
        Serve("get_kpis", session_id, Range(start_date, end_date),
              start_date, end_date, get_kpis)

api_get_revenue_trend ==
    /\ Idle
    /\ \E session_id \in SessionIds, start_date \in DateParams, end_date \in DateParams :
        Serve("get_revenue_trend", session_id, Range(start_date, end_date),
              start_date, end_date, get_revenue_trend)

api_get_top_products ==
    /\ Idle
    /\ \E session_id \in SessionIds, start_date \in DateParams, end_date \in DateParams,
       limit \in {1, 10} :
        Serve("get_top_products", session_id,
              [start_date |-> start_date, end_date |-> end_date, limit |-> limit],
              start_date, end_date, LAMBDA a : get_top_products(a, limit))

api_get_categories ==
    /\ Idle
    /\ \E session_id \in SessionIds, start_date \in DateParams, end_date \in DateParams :
        Serve("get_categories", session_id, Range(start_date, end_date),
              start_date, end_date, get_category_performance)

api_get_abc_analysis ==
    /\ Idle
    /\ \E session_id \in SessionIds, start_date \in DateParams, end_date \in DateParams :
        Serve("get_abc_analysis", session_id, Range(start_date, end_date),
              start_date, end_date, get_abc_analysis)

api_get_day_of_week ==
    /\ Idle
    /\ \E session_id \in SessionIds, start_date \in DateParams, end_date \in DateParams :
        Serve("get_day_of_week", session_id, Range(start_date, end_date),
              start_date, end_date, get_day_of_week_analysis)

\* GET /product/{session_id}/{product_name}: no result is "Product not found".
api_get_product_details ==
    /\ Idle
    /\ \E session_id \in SessionIds, start_date \in DateParams, end_date \in DateParams,
       product_name \in ProductParams :
        Serve("get_product_details", session_id,
              [start_date |-> start_date, end_date |-> end_date,
               product_name |-> product_name],
              start_date, end_date,
              LAMBDA a : LET result == get_product_details(a, product_name)
                         IN  IF ~result.raises /\ result.value = None
                             THEN [raises |-> TRUE, status |-> 404,
                                   body |-> [detail |-> "Product not found"]]
                             ELSE result)

api_search_products ==
    /\ Idle
    /\ \E session_id \in SessionIds, q \in SearchParams :
        Serve("search_products", session_id, [q |-> q], None, None,
              LAMBDA a : search_products(a, q, 20))

api_compare_products ==
    /\ Idle
    /\ \E session_id \in SessionIds, start_date \in DateParams, end_date \in DateParams,
       products \in CompareParams :
        Serve("compare_products", session_id,
              [start_date |-> start_date, end_date |-> end_date, products |-> products],
              start_date, end_date, LAMBDA a : compare_products(a, products))

api_get_inventory_alerts ==
    /\ Idle
    /\ \E session_id \in SessionIds, start_date \in DateParams, end_date \in DateParams :
        Serve("get_inventory_alerts", session_id, Range(start_date, end_date),
              start_date, end_date, get_inventory_alerts)

\* The three handlers below declare no start_date or end_date parameter:
\* a date range sent with the request is dropped before the handler runs.
api_get_reorder_suggestions ==
    /\ Idle
    /\ \E session_id \in SessionIds, months \in 1..3,
          start_date \in DateParams, end_date \in DateParams :
        Serve("get_reorder_suggestions", session_id,
              [months |-> months, start_date |-> start_date, end_date |-> end_date],
              None, None, LAMBDA a : get_reorder_suggestions(a, months))

api_get_seasonality ==
    /\ Idle
    /\ \E session_id \in SessionIds, start_date \in DateParams, end_date \in DateParams :
        Serve("get_seasonality", session_id, Range(start_date, end_date), None, None,
              get_seasonality_analysis)

api_get_preliminary_analysis ==
    /\ Idle
    /\ \E session_id \in SessionIds, start_date \in DateParams, end_date \in DateParams :
        Serve("get_preliminary_analysis", session_id, Range(start_date, end_date),
              None, None, generate_preliminary_analysis)

(***************************************************************************)
(* The forecasting router.                                                 *)
(***************************************************************************)
\* forecasting.get_data: the table of the session, or the HTTP error.
forecasting_get_data(session_id) ==
    IF session_id \notin DOMAIN data_store
    THEN HTTPException(404, "Session not found")
    ELSE LET data == get_data(data_store[session_id])
         IN  IF data = None THEN HTTPException(400, "Data not processed yet")
             ELSE [status |-> 200, data |-> data]

OK(body) == [status |-> 200, body |-> body]

\* "auto" choosing the seasonal method from seven months on.
pick_method_from_seven(method, ts) ==
    IF method = "auto" THEN (IF Len(ts) >= 7 THEN "seasonal" ELSE "exponential")
    ELSE method

\* The method "auto" stands for.
pick_method(method, ts) ==
    IF method = "auto" THEN (IF Len(ts) >= 6 THEN "seasonal" ELSE "exponential")
    ELSE method

with_method_name(out, method_name) ==
    IF out = None THEN None
    ELSE [forecasts |-> out.forecasts, trend |-> out.trend, method_name |-> method_name]

seasonal_or_fallback(out, ts, periods) ==
    IF out = None
    THEN with_method_name(forecast_exponential_smoothing(ts, periods, 3),
                          "Exponential Smoothing")
    ELSE [forecasts |-> out.forecasts, trend |-> out.slope,
          method_name |-> "Seasonal Decomposition",
          seasonalIndices |-> out.seasonal_indices]

\* The points of the picked method on ts, with the name of the method that
\* made them; None when no forecast is available.
run_method(picked, ts, periods) ==
    IF picked = "moving_average"
    THEN with_method_name(forecast_moving_average(ts, periods, 3), "Moving Average")
    ELSE IF picked = "seasonal"
    THEN seasonal_or_fallback(forecast_seasonal(ts, periods), ts, periods)
    ELSE with_method_name(forecast_exponential_smoothing(ts, periods, 3),
                          "Exponential Smoothing")

with_seasonal_indices(res, out) ==
    IF "seasonalIndices" \in DOMAIN out
    THEN OK([result |-> res, seasonalIndices |-> out.seasonalIndices])
    ELSE OK([result |-> res])

forecast_result(ts, out, ft) ==
    IF out = None THEN HTTPException(400, "Unable to generate forecast")
    ELSE with_seasonal_indices(
             _make_result(ts, out.forecasts, out.method_name, ft, out.trend), out)

forecast_of(prepared, periods, method, ft) ==
    IF prepared.status # 200 THEN prepared
    ELSE IF Len(prepared.ts) < 3
    THEN [status |-> 400,
          body |-> [detail |-> "Insufficient data", need |-> 3,
                    have |-> Len(prepared.ts)]]
    ELSE forecast_result(prepared.ts,
                         run_method(pick_method(method, prepared.ts), prepared.ts, periods),
                         ft)

forecast_from(got, product, periods, method, forecast_type) ==
    IF got.status # 200 THEN got
    ELSE forecast_of(prepare_time_series(got.data, product, forecast_type), periods,
                     method, _normalize_forecast_type(forecast_type))

get_forecast(session_id, product, periods, method, forecast_type, type) ==
    forecast_from(forecasting_get_data(session_id), product, periods, method,
                  IF type # NoType THEN type ELSE forecast_type)

\* nlargest(limit) of the revenue per product: the products in that order.
revenue_by_product(data, names) ==
    [i \in 1..Len(names) |->
        [product |-> names[i],
         total |-> sum(Group(data, "product", names[i]), "total")]]

products_of(top) == [i \in 1..Len(top) |-> top[i].product]

\* The first products in name order, whatever their revenue.
top_products_by_name(data, limit) ==
    products_of(head(revenue_by_product(data, SortedText(unique(data, "product"))),
                     limit))

top_products_by_revenue(data, limit) ==
    products_of(head(SortDesc(revenue_by_product(data,
                                  SortedText(unique(data, "product"))), "total"), limit))

product_forecast(product, ts, out, ft) ==
    IF Len(ts) < 3 \/ out = None THEN <<>>
    ELSE << [product |-> product,
             metric |-> ft,
             lastMonthValue |-> ts[Len(ts)].value,
             nextMonthForecast |-> out.forecasts[1].forecast,
             trend |-> _trend_label(out.trend),
             method |-> out.method_name] >>

product_forecast_of(product, ts, ft, method) ==
    product_forecast(product, ts,
                     IF Len(ts) < 3 THEN None
                     ELSE run_method(pick_method(method, ts), ts, 1), ft)

RECURSIVE product_forecasts(_, _, _, _, _)
product_forecasts(data, products, k, ft, method) ==
    IF k > Len(products) THEN <<>>
    ELSE product_forecast_of(products[k],
                             prepare_time_series(data, products[k], ft).ts, ft, method)
         \o product_forecasts(data, products, k + 1, ft, method)

products_with_forecasts_from(got, limit, forecast_type, method) ==
    IF got.status # 200 THEN got
    ELSE IF ~({"product", "total"} \subseteq got.data.cols)
    THEN HTTPException(500, "Internal Server Error")
    ELSE IF ~empty(got.data) /\ "month_year" \notin got.data.cols
    THEN HTTPException(400, "Missing required column: month_year")
    ELSE OK(product_forecasts(got.data, top_products_by_revenue(got.data, limit), 1,
                              _normalize_forecast_type(forecast_type), method))

get_products_with_forecasts(session_id, limit, forecast_type, method) ==
    products_with_forecasts_from(forecasting_get_data(session_id), limit,
                                 forecast_type, method)

\* pred_map.get(p, 0.0) for each held-out period.
predictions(ts_test, forecasts) ==
    [i \in 1..Len(ts_test) |->
        LET hit == SelectSeq(forecasts, LAMBDA f : f.period = ts_test[i].period)
        IN  IF Len(hit) > 0 THEN hit[Len(hit)].forecast ELSE Rat(0, 1)]

RatAbs(q) == IF RatLess(q, Rat(0, 1)) THEN RatSub(Rat(0, 1), q) ELSE q

RatMean(qs) == RatDiv(RatSum(qs), Rat(Len(qs), 1))

errors(ts_test, predicted) ==
    [i \in 1..Len(ts_test) |-> RatSub(Rat(ts_test[i].value, 1), predicted[i])]

\* |error / where(actual == 0, 1.0, actual)|
abs_pct_errors(ts_test, error) ==
    [i \in 1..Len(ts_test) |->
        RatAbs(RatDiv(error[i], IF ts_test[i].value = 0 THEN Rat(1, 1)
                                ELSE Rat(ts_test[i].value, 1)))]

\* RMSE is the square root of RMSE_squared.
accuracy_report(ft, product, method_name, holdout, ts_test, predicted, error) ==
    OK([metric |-> ft,
        product |-> product,
        method |-> method_name,
        holdout |-> holdout,
        metrics |->
            [MAE |-> RatMean([i \in 1..Len(error) |-> RatAbs(error[i])]),
             RMSE_squared |->
                 RatMean([i \in 1..Len(error) |-> RatTimes(error[i], error[i])]),
             MAPE |-> RatMul(RatMean(abs_pct_errors(ts_test, error)), 100)],
        details |-> [i \in 1..Len(ts_test) |->
            [period |-> ts_test[i].period,
             actual |-> ts_test[i].value,
             predicted |-> predicted[i],
             error |-> error[i],
             absError |-> RatAbs(error[i])]]])

accuracy_scored(ft, product, method_name, holdout, ts_test, predicted) ==
    accuracy_report(ft, product, method_name, holdout, ts_test, predicted,
                    errors(ts_test, predicted))

accuracy_result(ft, product, holdout, ts_test, out) ==
    IF out = None THEN HTTPException(400, "Unable to run accuracy test")
    ELSE accuracy_scored(ft, product, out.method_name, holdout, ts_test,
                         predictions(ts_test, out.forecasts))

accuracy_split(ft, product, holdout, method, ts_train, ts_test) ==
    accuracy_result(ft, product, holdout, ts_test,
                    run_method(pick_method(method, ts_train), ts_train, holdout))

\* The accuracy test with the method run on the whole series.
accuracy_of_trained_on_all(prepared, ft, product, holdout, method) ==
    IF prepared.status # 200 THEN prepared
    ELSE IF Len(prepared.ts) < 3 + holdout
    THEN [status |-> 400,
          body |-> [detail |-> "Insufficient data for accuracy test",
                    need |-> 3 + holdout, have |-> Len(prepared.ts)]]
    ELSE accuracy_split(ft, product, holdout, method,
                        prepared.ts,
                        SubSeq(prepared.ts, Len(prepared.ts) - holdout + 1,
                               Len(prepared.ts)))

accuracy_of(prepared, ft, product, holdout, method) ==
    IF prepared.status # 200 THEN prepared
    ELSE IF Len(prepared.ts) < 3 + holdout
    THEN [status |-> 400,
          body |-> [detail |-> "Insufficient data for accuracy test",
                    need |-> 3 + holdout, have |-> Len(prepared.ts)]]
    ELSE accuracy_split(ft, product, holdout, method,
                        SubSeq(prepared.ts, 1, Len(prepared.ts) - holdout),
                        SubSeq(prepared.ts, Len(prepared.ts) - holdout + 1,
                               Len(prepared.ts)))

accuracy_from(got, ft, product, holdout, method) ==
    IF got.status # 200 THEN got
    ELSE accuracy_of(prepare_time_series(got.data, product, ft), ft, product, holdout,
                     method)

forecast_accuracy_test(session_id, product, holdout, method, forecast_type, type) ==
    accuracy_from(forecasting_get_data(session_id),
                  _normalize_forecast_type(IF type # NoType THEN type ELSE forecast_type),
                  product, holdout, method)

\* The forecasting handlers take the table from the registry and leave it there.
api_get_forecast ==
    /\ Idle
    /\ \E session_id \in SessionIds, product \in {NoProduct} \cup ProductParams,
       periods \in PeriodsParams, method \in MethodParams,
       forecast_type \in ForecastTypeParams, type \in TypeParams :
        LET out == get_forecast(session_id, product, periods, method, forecast_type, type)
        IN  /\ resp' = Response("get_forecast", session_id,
                           [product |-> product, periods |-> periods, method |-> method,
                            forecast_type |-> forecast_type, type |-> type],
                           out.status, out.body)
            /\ UNCHANGED data_store

api_get_products_with_forecasts ==
    /\ Idle
    /\ \E session_id \in SessionIds, limit \in {1, 10},
       forecast_type \in ForecastTypeParams, method \in MethodParams :
        LET out == get_products_with_forecasts(session_id, limit, forecast_type, method)
        IN  /\ resp' = Response("get_products_with_forecasts", session_id,
                           [limit |-> limit, forecast_type |-> forecast_type,
                            method |-> method],
                           out.status, out.body)
            /\ UNCHANGED data_store

api_forecast_accuracy_test ==
    /\ Idle
    /\ \E session_id \in SessionIds, product \in {NoProduct} \cup ProductParams,
       holdout \in 1..3, method \in MethodParams,
       forecast_type \in ForecastTypeParams, type \in TypeParams :
        LET out == forecast_accuracy_test(session_id, product, holdout, method,
                                          forecast_type, type)
        IN  /\ resp' = Response("forecast_accuracy_test", session_id,
                           [product |-> product, holdout |-> holdout, method |-> method,
                            forecast_type |-> forecast_type, type |-> type],
                           out.status, out.body)
            /\ UNCHANGED data_store

(***************************************************************************)
(* The intelligence router.                                                *)
(***************************************************************************)
full_list_keywords ==
    << << "l", "i", "s", "t", " ", "a", "l", "l" >>,
       << "s", "h", "o", "w", " ", "a", "l", "l" >>,
       << "a", "l", "l", " ", "d", "e", "a", "d", " ", "s", "t", "o", "c", "k" >>,
       << "a", "l", "l", " ", "f", "a", "s", "t", " ", "m", "o", "v", "e", "r", "s" >>,
       << "c", "o", "m", "p", "l", "e", "t", "e", " ", "l", "i", "s", "t" >>,
       << "f", "u", "l", "l", " ", "l", "i", "s", "t" >>,
       << "e", "v", "e", "r", "y", " ", "d", "e", "a", "d" >>,
       << "e", "v", "e", "r", "y", " ", "f", "a", "s", "t" >>,
       << "a", "l", "l", " ", "p", "r", "o", "d", "u", "c", "t", "s", " ", "w", "i", "t", "h", " ", "n", "o", " ", "s", "a", "l", "e", "s" >>,
       << "a", "l", "l", " ", "s", "l", "o", "w", " ", "m", "o", "v", "i", "n", "g" >>,
       << "a", "l", "l", " ", "i", "t", "e", "m", "s" >>,
       << "g", "i", "v", "e", " ", "m", "e", " ", "a", "l", "l" >>,
       << "s", "h", "o", "w", " ", "m", "e", " ", "a", "l", "l" >>,
       << "l", "i", "s", "t", " ", "e", "v", "e", "r", "y" >>,
       << "a", "l", "l", " ", "t", "h", "e", " ", "d", "e", "a", "d" >>,
       << "e", "n", "t", "i", "r", "e", " ", "l", "i", "s", "t" >>,
       << "w", "h", "o", "l", "e", " ", "l", "i", "s", "t" >>,
       << "e", "x", "p", "o", "r", "t" >>,
       << "d", "o", "w", "n", "l", "o", "a", "d" >> >>

should_include_full_lists(question) ==
    \E k \in 1..Len(full_list_keywords) : Contains(full_list_keywords[k], lower(question))

Q_LIST_ALL == << "L", "i", "s", "t", " ", "a", "l", "l", " ", "d", "e", "a", "d", " ", "s", "t", "o", "c", "k" >>

Q_TOP == << "T", "o", "p", " ", "p", "r", "o", "d", "u", "c", "t", "s", "?" >>

Questions == {Q_LIST_ALL, Q_TOP}

\* What the call to the model API comes to: an answer, a 200 whose body is
\* not the JSON the handler reads, a response of another status, a timeout,
\* or a request that fails on the network.
UpstreamStatuses == {401, 500, 504}

ClaudeOutcomes ==
    {[kind |-> "answered", status |-> 200], [kind |-> "garbled", status |-> 200],
     [kind |-> "timeout", status |-> 0], [kind |-> "request_error", status |-> 0]}
    \cup {[kind |-> "rejected", status |-> status] : status \in UpstreamStatuses}

Raised(exception, detail) == [raises |-> TRUE, exception |-> exception, detail |-> detail]

\* get_data_context: the two guards raise HTTPException; past them the
\* context is gathered and then, with or without full lists, a method the
\* service does not define (get_all_dead_stock) is called on it.
get_data_context(session_id, include_full_lists) ==
    IF session_id \notin DOMAIN data_store
    THEN Raised("HTTPException", "404: Session not found")
    ELSE IF get_data(data_store[session_id]) = None
    THEN Raised("HTTPException", "400: Data not processed yet")
    ELSE IF include_full_lists
    THEN Raised("AttributeError", "get_all_dead_stock")
    ELSE Raised("AttributeError", "get_all_dead_stock")

call_claude(outcome) ==
    IF outcome.kind = "answered"
    THEN OK([answer |-> "text",
             context_used |-> <<"kpis", "categories", "abc", "revenue_trend",
                                "top_products", "inventory", "seasonality">>])
    ELSE IF outcome.kind = "garbled" THEN HTTPException(500, "Internal Server Error")
    ELSE IF outcome.kind = "rejected"
    THEN HTTPException(outcome.status, "Claude API error")
    ELSE IF outcome.kind = "timeout" THEN HTTPException(504, "AI request timed out")
    ELSE HTTPException(500, "Failed to connect to AI service")

ask_with_context(context, outcome) ==
    IF context.raises THEN HTTPException(400, context.detail)
    ELSE call_claude(outcome)

\* api_key: whether the request or the environment supplies a key.
ask_ai(session_id, question, api_key, outcome) ==
    IF ~api_key THEN HTTPException(400, "API key required")
    ELSE ask_with_context(
             get_data_context(session_id, should_include_full_lists(question)), outcome)

get_analytics_for_diagnosis(session_id) == get_analytics(session_id, None, None)

\* POST /ask
api_ask_ai ==
    /\ Idle
    /\ \E session_id \in SessionIds, question \in Questions, api_key \in BOOLEAN,
          outcome \in ClaudeOutcomes :
        LET out == ask_ai(session_id, question, api_key, outcome)
        IN  /\ resp' = Response("ask_ai", session_id,
                           [question |-> question, api_key |-> api_key],
                           out.status, out.body)
            /\ UNCHANGED data_store

\* GET /diagnose/{session_id}
api_diagnose_data ==
    /\ Idle
    /\ \E session_id \in SessionIds, api_key \in BOOLEAN, outcome \in ClaudeOutcomes :
        IF ~api_key
        THEN ServeFrom("diagnose_data", session_id, [api_key |-> api_key],
                       get_analytics_for_diagnosis(session_id),
                       generate_preliminary_analysis)
        ELSE LET out == ask_ai(session_id, Q_TOP, api_key, outcome)
             IN  /\ resp' = Response("diagnose_data", session_id, [api_key |-> api_key],
                                out.status, out.body)
                 /\ UNCHANGED data_store

deliver ==
    /\ ~Idle
    /\ resp' = Response("none", "", <<>>, 0, <<>>)
    /\ UNCHANGED data_store

Init == data_store = <<>> /\ resp = Response("none", "", <<>>, 0, <<>>)

Next ==
    \/ upload_file
    \/ api_process_data
    \/ check_session
    \/ api_get_date_range
    \/ api_get_kpis
    \/ api_get_revenue_trend
    \/ api_get_top_products
    \/ api_get_categories
    \/ api_get_abc_analysis
    \/ api_get_day_of_week
    \/ api_get_product_details
    \/ api_search_products
    \/ api_compare_products
    \/ api_get_inventory_alerts
    \/ api_get_reorder_suggestions
    \/ api_get_seasonality
    \/ api_get_preliminary_analysis
    \/ api_get_forecast
    \/ api_get_products_with_forecasts
    \/ api_forecast_accuracy_test
    \/ api_ask_ai
    \/ api_diagnose_data
    \/ deliver

Spec == Init /\ [][Next]_vars

(***************************************************************************)
(* Properties of the session registry.                                     *)
(***************************************************************************)
AnalyticsOps ==
    {"get_date_range", "get_kpis", "get_revenue_trend", "get_top_products",
     "get_categories", "get_abc_analysis", "get_day_of_week", "get_product_details",
     "search_products", "compare_products", "get_inventory_alerts",
     "get_reorder_suggestions", "get_seasonality", "get_preliminary_analysis"}

ForecastOps == {"get_forecast", "get_products_with_forecasts", "forecast_accuracy_test"}

IntelligenceOps == {"ask_ai", "diagnose_data"}

QueryOps == AnalyticsOps \cup ForecastOps \cup IntelligenceOps

Registered(s) == s \in DOMAIN data_store

TableOf(s) == get_data(data_store[s])

\* The response carries a date range with both ends given.
HasRange(r) ==
    /\ "start_date" \in DOMAIN r.args
    /\ r.args.start_date # None
    /\ r.args.end_date # None

\* C1: every analytics, forecast and intelligence operation answers 404 for
\* a session id that was never registered and 400 for a session that is
\* registered but holds no table.
C1_UnknownOrUnprocessedFails ==
    resp.op \in QueryOps =>
        /\ ~Registered(resp.session_id) => resp.status = 404
        /\ (Registered(resp.session_id) /\ TableOf(resp.session_id) = None)
               => resp.status = 400

\* The last process call on s answered 200: it stored a table with a date
\* column and at least one row.
Processed(s) ==
    /\ Registered(s)
    /\ TableOf(s) # None
    /\ "date" \in TableOf(s).cols
    /\ Len(TableOf(s).rows) > 0

\* C2: once a process call has succeeded for a session, no later step,
\* a further process call included, changes the table of that session.
C2_TableWrittenOnce ==
    [][\A s \in SessionIds :
          Processed(s) => data_store'[s].data = data_store[s].data]_vars

\* C3: a step that serves an analytics, forecast or intelligence request
\* leaves every session's table, and the registry, as they were.
C3_QueriesLeaveTable ==
    [][resp'.op \in QueryOps => data_store' = data_store]_vars

\* A filtered request was answered from a view that left rows of the table
\* out, and the table still has them.
C3_Witness ==
    /\ resp.op \in AnalyticsOps
    /\ resp.status = 200
    /\ HasRange(resp)
    /\ Processed(resp.session_id)
    /\ LET made == AnalyticsService(TableOf(resp.session_id), resp.args.start_date,
                                    resp.args.end_date)
       IN  /\ ~made.raises
           /\ Len(made.value.data.rows) < Len(TableOf(resp.session_id).rows)

(***************************************************************************)
(* Properties of ingestion and of the date-filtered view.                  *)
(***************************************************************************)
BehaviorCategories == {"acute", "chronic", "convenience", "recurring"}

RowWellFormed(r) ==
    /\ r["date"] # NaT
    /\ r["product"] # <<>>
    /\ r["quantity"] > 0
    /\ r["total"] >= 0
    /\ r["behavior_category"] \in BehaviorCategories

\* C4: every table process_data has stored has the date, product, quantity,
\* total and behavior_category columns, and each of its rows has a parsed
\* date, a non-empty product, quantity > 0, total >= 0 and one of the four
\* categories.
C4_RowsWellFormed ==
    \A s \in DOMAIN data_store :
        TableOf(s) # None =>
            /\ {"date", "product", "quantity", "total", "behavior_category"}
                   \subseteq TableOf(s).cols
            /\ \A i \in 1..Len(TableOf(s).rows) : RowWellFormed(TableOf(s).rows[i])

\* The rows of the table dated on a calendar day from the day of start_date
\* to the day of end_date.
RowsWithinDays(table, start_date, end_date) ==
    SelectSeq(table.rows, LAMBDA r :
        /\ DayOf(to_datetime(start_date)) <= DayOf(r["date"])
        /\ DayOf(r["date"]) <= DayOf(to_datetime(end_date)))

SuppliedDates == DateParams \ {None}

\* C5: with both dates supplied the view of the service holds exactly the
\* rows of the table dated from the start day to the end day, both days
\* included whatever the time of day of the row.
C5_ViewIsInclusiveRange ==
    \A s \in DOMAIN data_store :
        Processed(s) =>
            \A start_date \in SuppliedDates, end_date \in SuppliedDates :
                LET made == AnalyticsService(TableOf(s), start_date, end_date)
                IN  /\ ~made.raises
                    /\ made.value.data.rows
                           = RowsWithinDays(TableOf(s), start_date, end_date)

\* What the operation of a response computes on a service.
OnService(r, service) ==
    CASE r.op = "get_kpis" -> get_kpis(service)
      [] r.op = "get_abc_analysis" -> get_abc_analysis(service)
      [] r.op = "get_reorder_suggestions" ->
             get_reorder_suggestions(service, r.args.months)
      [] r.op = "get_seasonality" -> get_seasonality_analysis(service)
      [] r.op = "get_preliminary_analysis" -> generate_preliminary_analysis(service)

RangeOps ==
    {"get_kpis", "get_abc_analysis", "get_reorder_suggestions", "get_seasonality",
     "get_preliminary_analysis"}

\* C6: a KPI, ABC, reorder, seasonality or preliminary-analysis request that
\* carries a date range is answered with what the operation computes on the
\* view filtered by that range.
C6_RangeHonoured ==
    (resp.op \in RangeOps /\ resp.status = 200 /\ HasRange(resp)) =>
        LET made == AnalyticsService(TableOf(resp.session_id), resp.args.start_date,
                                     resp.args.end_date)
        IN  /\ ~made.raises
            /\ ~OnService(resp, made.value).raises
            /\ resp.body = OnService(resp, made.value).value

(***************************************************************************)
(* Properties of the aggregations.                                         *)
(***************************************************************************)
MonthRevenue(view, m) == sum(Group(view, "month_year", m), "total")

LatestMonth(months) == CHOOSE m \in months : \A k \in months : k <= m

\* (last - prev) / prev * 100 over the two latest months of the view, 0 with
\* fewer than two months or with prev = 0.
MomGrowthOf(view) ==
    LET months == unique(view, "month_year")
    IN  IF Cardinality(months) < 2 THEN Rat(0, 1)
        ELSE LET last == MonthRevenue(view, LatestMonth(months))
                 prev == MonthRevenue(view,
                             LatestMonth(months \ {LatestMonth(months)}))
             IN  IF prev = 0 THEN Rat(0, 1) ELSE Rat((last - prev) * 100, prev)

\* The view a response was computed on.
ViewOf(r) ==
    IF HasRange(r)
    THEN AnalyticsService(TableOf(r.session_id), r.args.start_date,
                          r.args.end_date).value.data
    ELSE TableOf(r.session_id)

\* C8: the momGrowth of a KPI answer is 0 with fewer than two months in the
\* view and with prev = 0, and (last - prev) / prev * 100 otherwise.
C8_MomGrowth ==
    (resp.op = "get_kpis" /\ resp.status = 200) =>
        resp.body.momGrowth = MomGrowthOf(ViewOf(resp))

ZeroKpis ==
    [totalRevenue |-> 0, totalTransactions |-> 0, totalUnits |-> 0,
     uniqueProducts |-> 0, avgTransactionValue |-> Rat(0, 1),
     avgUnitsPerTransaction |-> Rat(0, 1), momGrowth |-> Rat(0, 1)]

\* Every aggregation on the service returns its empty result.
EmptyResults(service) ==
    /\ get_kpis(service) = Returns(ZeroKpis)
    /\ get_revenue_trend(service) = Returns(<<>>)
    /\ get_top_products(service, 10) = Returns(<<>>)
    /\ get_category_performance(service) = Returns(<<>>)
    /\ get_day_of_week_analysis(service) = Returns(<<>>)
    /\ get_reorder_suggestions(service, 1) = Returns(<<>>)
    /\ get_abc_analysis(service) = Returns([summary |-> <<>>, details |-> <<>>])
    /\ get_inventory_alerts(service)
           = Returns([fastMovers |-> <<>>, deadStock |-> <<>>,
                      fastMoversCount |-> 0, deadStockCount |-> 0])
    /\ get_seasonality_analysis(service)
           = Returns([hasSeasonality |-> FALSE, patterns |-> <<>>])
    /\ \A products \in CompareParams :
           compare_products(service, products) = Returns([products |-> <<>>])
    /\ ~generate_preliminary_analysis(service).raises
    /\ "error" \notin DOMAIN generate_preliminary_analysis(service).value

\* C9: on an empty view every aggregation returns the empty result of its
\* normal shape, the preliminary analysis included, and none raises.
C9_EmptyViewEmptyResults ==
    \A s \in DOMAIN data_store :
        TableOf(s) # None =>
            \A start_date \in DateParams, end_date \in DateParams :
                LET made == AnalyticsService(TableOf(s), start_date, end_date)
                IN  (~made.raises /\ empty(made.value.data))
                        => EmptyResults(made.value)

(***************************************************************************)
(* The classifier on its own: product names made of a few tokens.          *)
(***************************************************************************)
NameTokens ==
    { << "e", "n", "s", "u", "r", "e" >>,
      << "E", "n", "s", "u", "r", "e" >>,
      << "P", "A", "R", "A", "C", "E", "T", "A", "M", "O", "L" >>,
      << "m", "e", "t", "f", "o", "r", "m", "i", "n" >>,
      << "c", "o", "l", "a" >>,
      << "N", "A", "N", " " >>,
      << "n", "a", "n" >>,
      << "x", "y", "z" >>,
      << " " >>,
      << "P", "a", "m", "p", "e", "r", "s" >>,
      << "s", "u", "r", "e" >>,
      << "M", "a", "l", "t" >> }

RECURSIVE NamesOf(_)
NamesOf(n) ==
    IF n = 0 THEN {<<>>}
    ELSE NamesOf(n - 1) \cup {a \o t : a \in NamesOf(n - 1), t \in NameTokens}

ProductNames == NamesOf(MaxNameTokens)

\* process_data applies the classifier to one product name.
classify_product ==
    /\ Idle
    /\ \E product_name \in ProductNames :
        /\ resp' = Response("_classify_product", "", [product_name |-> product_name],
                            200, _classify_product(product_name))
        /\ UNCHANGED data_store

NextClassify ==
    \/ classify_product
    \/ deliver

SpecClassify == Init /\ [][NextClassify]_vars

CategoryOrder == <<"acute", "chronic", "convenience", "recurring">>

KeywordsOf(category) ==
    LET c == CHOOSE c \in 1..Len(MARKUP_CATEGORIES) :
                 MARKUP_CATEGORIES[c].category = category
    IN  MARKUP_CATEGORIES[c].keywords

Matches(category, text) ==
    \E k \in 1..Len(KeywordsOf(category)) : Contains(KeywordsOf(category)[k], text)

\* C7: the category of a name is the first of acute, chronic, convenience,
\* recurring one of whose keywords is a substring of the lowercased name,
\* and convenience when no keyword of any category is.
C7_FirstMatchWins ==
    resp.op = "_classify_product" =>
        LET text == lower(resp.args.product_name)
        IN  /\ \A i \in 1..Len(CategoryOrder) :
                   (/\ Matches(CategoryOrder[i], text)
                    /\ \A j \in 1..(i - 1) : ~Matches(CategoryOrder[j], text))
                       => resp.body = CategoryOrder[i]
            /\ (\A i \in 1..Len(CategoryOrder) : ~Matches(CategoryOrder[i], text))
                   => resp.body = "convenience"

\* A name in capitals holding both 'sure' and 'ensure' was classified
\* convenience.
C7_Witness ==
    /\ resp.op = "_classify_product"
    /\ resp.args.product_name # lower(resp.args.product_name)
    /\ Matches("convenience", lower(resp.args.product_name))
    /\ Matches("recurring", lower(resp.args.product_name))
    /\ ~Matches("acute", lower(resp.args.product_name))
    /\ ~Matches("chronic", lower(resp.args.product_name))
    /\ resp.body = "convenience"

(***************************************************************************)
(* Category performance on its own: sessions processed from files of up to *)
(* MaxRawRows sales, one product per category in turn.                     *)
(***************************************************************************)
T_PAMPERS == << "P", "a", "m", "p", "e", "r", "s" >>

CategoryItems == <<T_PARA, T_METFORMIN, T_COLA, T_PAMPERS>>

AmountTexts ==
    { Num(0), Num(1), Num(3), << "1", "3" >>, << "-", "1" >> }

CategoryFile(amounts) ==
    [ext |-> "csv",
     content |-> DataFrame(RawColumns,
        [i \in 1..Len(amounts) |->
            RawRow(IF i = 1 THEN DateString(2024, 1, 31, 0)
                   ELSE DateString(2024, 2, 10, 0),
                   CategoryItems[((i - 1) % Len(CategoryItems)) + 1],
                   Num(1), amounts[i], <<>>)])]

\* The registry after the file was uploaded as session_id and processed.
StoreAfter(session_id, file, column_mapping) ==
    [s \in {session_id} |->
        [raw_data |-> load_file(file).raw_data,
         data |-> process_data([raw_data |-> load_file(file).raw_data, data |-> None],
                               column_mapping).data]]

InitCategories ==
    /\ \E n \in 1..MaxRawRows :
        \E amounts \in [1..n -> AmountTexts] :
            data_store = StoreAfter("s1", CategoryFile(amounts), FullMapping)
    /\ resp = Response("none", "", <<>>, 0, <<>>)

NextCategories ==
    \/ api_get_categories
    \/ deliver

SpecCategories == InitCategories /\ [][NextCategories]_vars

RevenueSum(body) == Sum([i \in 1..Len(body) |-> body[i].revenue])

PercentageSum(body) == RatSum([i \in 1..Len(body) |-> body[i].percentage])

\* q is a number within tenths/10 of 100.
Near100(q, tenths) ==
    /\ IsFinite(q)
    /\ Abs(10 * q[1] - 1000 * q[2]) <= tenths * q[2]

\* C10: for a non-empty view the category revenues sum to the total of the
\* view and the category percentages sum to 100 within 0.1.
C10_SharesSumTo100 ==
    (resp.op = "get_categories" /\ resp.status = 200 /\ ~empty(ViewOf(resp))) =>
        /\ RevenueSum(resp.body) = sum(ViewOf(resp), "total")
        /\ Near100(PercentageSum(resp.body), 1)

\* C10, amended: for a non-empty view the category revenues sum to the total
\* of the view and, when that total is not zero, the category percentages
\* sum to 100 within 0.2.
C10_SharesSumNear100 ==
    (resp.op = "get_categories" /\ resp.status = 200 /\ ~empty(ViewOf(resp))) =>
        /\ RevenueSum(resp.body) = sum(ViewOf(resp), "total")
        /\ sum(ViewOf(resp), "total") # 0
               => Near100(PercentageSum(resp.body), 2)

\* Four categories were reported and their rounded percentages do not sum to
\* 100 exactly.
C10_Witness ==
    /\ resp.op = "get_categories"
    /\ resp.status = 200
    /\ Len(resp.body) = Len(CategoryItems)
    /\ sum(ViewOf(resp), "total") # 0
    /\ PercentageSum(resp.body) # Rat(100, 1)

(***************************************************************************)
(* ABC analysis on its own: sessions processed from files of up to         *)
(* MaxRawRows sales of the products X, Y and Z in turn.                    *)
(***************************************************************************)
AbcItems == << <<"X">>, <<"Y">>, <<"Z">> >>

AbcAmounts ==
    { <<"8", "0", "0">>, <<"1", "5", "0">>, <<"5", "0">>, Num(0),
      <<"-", "5", "0">> }

AbcFile(amounts) ==
    [ext |-> "csv",
     content |-> DataFrame(RawColumns,
        [i \in 1..Len(amounts) |->
            RawRow(IF i = 1 THEN DateString(2024, 1, 31, 0)
                   ELSE DateString(2024, 2, 10, 0),
                   AbcItems[((i - 1) % Len(AbcItems)) + 1],
                   Num(1), amounts[i], <<>>)])]

InitAbc ==
    /\ \E n \in 1..MaxRawRows :
        \E amounts \in [1..n -> AbcAmounts] :
            data_store = StoreAfter("s1", AbcFile(amounts), FullMapping)
    /\ resp = Response("none", "", <<>>, 0, <<>>)

NextAbc ==
    \/ api_get_abc_analysis
    \/ deliver

SpecAbc == InitAbc /\ [][NextAbc]_vars

\* The revenue of a product over a view.
RevenueOf(view, product) == sum(Group(view, "product", product), "total")

\* The cumulative revenue fraction up to and including the i-th detail, as a
\* pair of the cumulated revenue and the total revenue.
CumulativeRevenue(details, i) == Sum([j \in 1..i |-> details[j].revenue])

\* The class the boundaries 0.80 and 0.95 give to the fraction cum / total;
\* a fraction that is no number (total 0) is in neither A nor B.
ClassOfFraction(cum, total) ==
    IF total = 0 THEN "C"
    ELSE IF (total > 0 /\ 10 * cum <= 8 * total) \/ (total < 0 /\ 10 * cum >= 8 * total)
    THEN "A"
    ELSE IF (total > 0 /\ 100 * cum <= 95 * total)
            \/ (total < 0 /\ 100 * cum >= 95 * total)
    THEN "B"
    ELSE "C"

AbcAnswered == resp.op = "get_abc_analysis" /\ resp.status = 200

\* C11: the details of an ABC answer rank the products of the view by
\* descending revenue, each product is A iff its cumulative revenue fraction
\* is <= 0.80, B iff it is in (0.80, 0.95], C otherwise; revenues 800, 150,
\* 50 of X, Y, Z give A = {X}, B = {Y}, C = {Z}; and the counts of the
\* summary sum to the number of distinct products of the view.
C11_AbcClasses ==
    AbcAnswered =>
        LET details == resp.body.details
            summary == resp.body.summary
            view == ViewOf(resp)
            products == unique(view, "product")
            total == CumulativeRevenue(details, Len(details))
        IN  /\ {details[i].product : i \in 1..Len(details)} = products
            /\ Len(details) = Cardinality(products)
            /\ \A i \in 1..Len(details) :
                /\ details[i].revenue = RevenueOf(view, details[i].product)
                /\ i > 1 => details[i - 1].revenue >= details[i].revenue
                /\ details[i].class =
                       ClassOfFraction(CumulativeRevenue(details, i), total)
            /\ Sum([k \in 1..Len(summary) |-> summary[k].count])
                   = Cardinality(products)
            /\ (/\ products = {<<"X">>, <<"Y">>, <<"Z">>}
                /\ RevenueOf(view, <<"X">>) = 800
                /\ RevenueOf(view, <<"Y">>) = 150
                /\ RevenueOf(view, <<"Z">>) = 50)
                   => /\ details[1].product = <<"X">> /\ details[1].class = "A"
                      /\ details[2].product = <<"Y">> /\ details[2].class = "B"
                      /\ details[3].product = <<"Z">> /\ details[3].class = "C"

\* The answer for X = 800, Y = 150, Z = 50: both boundaries are met exactly.
C11_Witness ==
    /\ AbcAnswered
    /\ Len(resp.body.details) = 3
    /\ resp.body.details[1].revenue = 800
    /\ resp.body.details[2].revenue = 150
    /\ resp.body.details[3].revenue = 50
    /\ resp.body.details[1].class = "A"
    /\ resp.body.details[2].class = "B"

(***************************************************************************)
(* Inventory alerts on their own: sessions processed from files of up to   *)
(* MaxProducts products with one sale each.  The first product is sold on  *)
(* 2024-03-31, the i-th one g0 + (i - 2) * step days earlier at the given  *)
(* time of day; the product number high sells for 5, the others for 1.     *)
(***************************************************************************)
DateOfDay(day, tick) ==
    DateString(Civil(day * TicksPerDay).year, Civil(day * TicksPerDay).month,
               Civil(day * TicksPerDay).day, tick)

LatestDay == DaysBeforeMonth(2024, 3) + 30

FirstGaps == {57, 59, 60}

InventoryFile(n, g0, step, tick, high) ==
    [ext |-> "csv",
     content |-> DataFrame(RawColumns,
        [i \in 1..n |->
            RawRow(IF i = 1 THEN DateOfDay(LatestDay, 0)
                   ELSE DateOfDay(LatestDay - (g0 + (i - 2) * step), tick),
                   <<UpperAlpha[i]>>,
                   Num(1), IF i = high THEN Num(5) ELSE Num(1), <<>>)])]

InitInventory ==
    /\ \E n \in 1..MaxProducts, g0 \in FirstGaps, step \in 0..1,
          tick \in 0..(TicksPerDay - 1) :
        \E high \in {0, 1, n} :
            data_store = StoreAfter("s1", InventoryFile(n, g0, step, tick, high),
                                    FullMapping)
    /\ resp = Response("none", "", <<>>, 0, <<>>)

NextInventory ==
    \/ api_get_inventory_alerts
    \/ deliver

SpecInventory == InitInventory /\ [][NextInventory]_vars

InventoryAnswered ==
    resp.op = "get_inventory_alerts" /\ resp.status = 200 /\ ~empty(ViewOf(resp))

\* The time from the last sale of a product in the view to the latest date
\* of the view, in ticks.
SinceLastSale(view, product) ==
    date_max(view) - date_max(Group(view, "product", product))

\* The products of the view last sold at least 60 days before its latest date.
DeadProducts(view) ==
    {p \in unique(view, "product") : SinceLastSale(view, p) >= 60 * TicksPerDay}

Smaller(a, b) == IF a < b THEN a ELSE b

\* C12: deadStockCount is the number of products of the view last sold at
\* least 60 days before its latest date; the deadStock list holds only such
\* products, each with its whole days since the last sale, in descending
\* order of them, at most 10, and no product left out has more days than a
\* listed one.
C12_DeadStock ==
    InventoryAnswered =>
        LET view == ViewOf(resp)
            dead == DeadProducts(view)
            list == resp.body.deadStock
            listed == {list[i].product : i \in 1..Len(list)}
        IN  /\ resp.body.deadStockCount = Cardinality(dead)
            /\ listed \subseteq dead
            /\ Cardinality(listed) = Len(list)
            /\ Len(list) = Smaller(10, Cardinality(dead))
            /\ \A i \in 1..Len(list) :
                /\ list[i].days_since_last_sale
                       = SinceLastSale(view, list[i].product) \div TicksPerDay
                /\ list[i].days_since_last_sale >= 60
                /\ i > 1 => list[i - 1].days_since_last_sale
                                >= list[i].days_since_last_sale
                /\ \A p \in dead \ listed :
                       SinceLastSale(view, p) \div TicksPerDay
                           <= list[i].days_since_last_sale

\* Eleven products are dead, ten are listed, one of them 61 days after its
\* last sale, and the product left out is the one 60 days after it.
C12_Witness ==
    /\ InventoryAnswered
    /\ resp.body.deadStockCount = 11
    /\ Len(resp.body.deadStock) = 10
    /\ resp.body.deadStock[10].days_since_last_sale = 61

\* A product last sold 59 days and a half before the latest date is not
\* dead stock.
C12_WitnessNotDead ==
    /\ InventoryAnswered
    /\ resp.body.deadStockCount = 0
    /\ \E p \in unique(ViewOf(resp), "product") :
           /\ SinceLastSale(ViewOf(resp), p) < 60 * TicksPerDay
           /\ SinceLastSale(ViewOf(resp), p) > 59 * TicksPerDay

\* The monthly revenue velocity of a product of the view.
VelocityOf(view, product) ==
    RatDiv(Rat(RevenueOf(view, product), 1), elapsed_months(view))

\* The products of the view at or above the 90th percentile of velocities.
FastProducts(view) ==
    LET names == SortedText(unique(view, "product"))
        threshold == quantile90([i \in 1..Len(names) |-> VelocityOf(view, names[i])])
    IN  {p \in unique(view, "product") : RatGeq(VelocityOf(view, p), threshold)}

\* C13: fastMoversCount is the number of products of the view at or above
\* the 90th percentile of monthly revenue velocity; the fastMovers list holds
\* only such products, at most 10, and no qualifying product left out has a
\* higher velocity than a listed one.
C13_FastMoversTopTen ==
    InventoryAnswered =>
        LET view == ViewOf(resp)
            fast == FastProducts(view)
            list == resp.body.fastMovers
            listed == {list[i].product : i \in 1..Len(list)}
        IN  /\ resp.body.fastMoversCount = Cardinality(fast)
            /\ listed \subseteq fast
            /\ Len(list) = Smaller(10, Cardinality(fast))
            /\ \A i \in 1..Len(list) :
                /\ list[i].monthly_revenue = VelocityOf(view, list[i].product)
                /\ \A p \in fast \ listed :
                       ~RatLess(list[i].monthly_revenue, VelocityOf(view, p))

(***************************************************************************)
(* The data context of the AI questions, on the sessions of Spec.          *)
(***************************************************************************)
\* C14: for every processed session the data-context build completes, with
\* and without the full lists, and returns the dead-stock and fast-mover
\* lists.
C14_ContextBuilt ==
    \A s \in DOMAIN data_store :
        get_data(data_store[s]) # None =>
            \A include_full_lists \in BOOLEAN :
                ~get_data_context(s, include_full_lists).raises

(***************************************************************************)
(* Product search on its own: the method is called on services built with  *)
(* and without a date range over sessions processed from files of up to    *)
(* MaxRawRows sales of three products in turn.                             *)
(***************************************************************************)
T_PARACETAMOL_500MG ==
    << "P", "a", "r", "a", "c", "e", "t", "a", "m", "o", "l", " ",
       "5", "0", "0", "m", "g" >>

T_PARASOL_CREAM ==
    << "P", "a", "r", "a", "s", "o", "l", " ", "C", "r", "e", "a", "m" >>

SearchItems == <<T_PARACETAMOL_500MG, T_PARASOL_CREAM, T_COLA>>

SearchAmounts == {Num(1), Num(3), Num(5)}

SearchFile(amounts) ==
    [ext |-> "csv",
     content |-> DataFrame(RawColumns,
        [i \in 1..Len(amounts) |->
            RawRow(IF i = 1 THEN DateString(2024, 1, 31, 0)
                   ELSE DateString(2024, 2, 10, 0),
                   SearchItems[((i - 1) % Len(SearchItems)) + 1],
                   Num(1), amounts[i], <<>>)])]

Q_PARA == << "p", "a", "r", "a" >>

Q_CREAM_PARA == << " ", "c", "r", "e", "a", "m", " ", " ", "P", "A", "R", "A", " " >>

Q_ZZ == << "z", "z" >>

Q_COLA_X == << "c", "o", "l", "a", " ", "x" >>

SearchQueries == {Q_PARA, Q_CREAM_PARA, Q_ZZ, Q_COLA_X}

SearchLimits == {1, 20}

InitSearch ==
    /\ \E n \in 1..MaxRawRows :
        \E amounts \in [1..n -> SearchAmounts] :
            data_store = StoreAfter("s1", SearchFile(amounts), FullMapping)
    /\ resp = Response("none", "", <<>>, 0, <<>>)

\* AnalyticsService(data, start_date, end_date).search_products(query, limit)
call_search_products ==
    /\ Idle
    /\ \E session_id \in DOMAIN data_store, start_date \in DateParams,
          end_date \in DateParams, query \in SearchQueries, limit \in SearchLimits :
        Serve("AnalyticsService.search_products", session_id,
              [start_date |-> start_date, end_date |-> end_date,
               query |-> query, limit |-> limit],
              start_date, end_date, LAMBDA a : search_products(a, query, limit))

NextSearch ==
    \/ call_search_products
    \/ deliver

SpecSearch == InitSearch /\ [][NextSearch]_vars

\* The names of the table that the query selects: those containing the
\* upper-cased trimmed query, or, when there is none, those containing one
\* of its blank-separated tokens.
Selected(table, query) ==
    LET names == unique(table, "product")
        whole == strip(upper(query))
        tokens == split(whole)
        exact == {p \in names : Contains(whole, p)}
    IN  IF exact # {} THEN exact
        ELSE {p \in names : \E k \in 1..Len(tokens) : Contains(tokens[k], p)}

\* The answer r of a search is the one the claim describes for the table.
SearchAnswer(table, r) ==
    LET selected == Selected(table, r.args.query)
        listed == {r.body[i].name : i \in 1..Len(r.body)}
    IN  /\ r.status = 200
        /\ listed \subseteq selected
        /\ Cardinality(listed) = Len(r.body)
        /\ Len(r.body) = Smaller(r.args.limit, Cardinality(selected))
        /\ \A i \in 1..Len(r.body) :
            /\ r.body[i].revenue = RevenueOf(table, r.body[i].name)
            /\ i > 1 => r.body[i - 1].revenue >= r.body[i].revenue
            /\ \A p \in selected \ listed : RevenueOf(table, p) <= r.body[i].revenue

\* C15: whatever date range the service was built with, search_products
\* answers from the unfiltered table of the session: the names containing
\* the upper-cased trimmed query, or else the names containing one of its
\* tokens, by descending revenue over the unfiltered table, at most limit.
C15_SearchUnfiltered ==
    [][resp'.op = "AnalyticsService.search_products"
           => SearchAnswer(TableOf(resp'.session_id), resp')]_vars

\* The query para on a service whose date range holds no row of one of the
\* two products returns both PARACETAMOL 500MG and PARASOL CREAM.
C15_Witness ==
    /\ resp.op = "AnalyticsService.search_products"
    /\ resp.args.query = Q_PARA
    /\ HasRange(resp)
    /\ resp.args.limit = 20
    /\ {resp.body[i].name : i \in 1..Len(resp.body)}
           = {upper(T_PARACETAMOL_500MG), upper(T_PARASOL_CREAM)}
    /\ unique(ViewOf(resp), "product") = {upper(T_PARACETAMOL_500MG)}

(***************************************************************************)
(* Products without rows in the view, on the sessions of Spec.             *)
(***************************************************************************)
HasRows(view, product) == ~empty(Group(view, "product", product))

OnTable(r) == Registered(r.session_id) /\ TableOf(r.session_id) # None

\* C16: the detail of a product without rows in the view is answered 404
\* "Product not found"; a comparison is answered 200 with one entry for each
\* requested product that has rows in the view, in the order of the request,
\* the products without rows left out.
C16_MissingProducts ==
    /\ (resp.op = "get_product_details" /\ OnTable(resp)) =>
           IF HasRows(ViewOf(resp), resp.args.product_name)
           THEN resp.status # 404
           ELSE resp.status = 404 /\ resp.body = [detail |-> "Product not found"]
    /\ (resp.op = "compare_products" /\ OnTable(resp)) =>
           /\ resp.status = 200
           /\ [i \in 1..Len(resp.body.products) |-> resp.body.products[i].name]
                  = SelectSeq(resp.args.products,
                              LAMBDA p : HasRows(ViewOf(resp), p))

\* A comparison of a product without rows and two products with rows.
C16_Witness ==
    /\ resp.op = "compare_products"
    /\ resp.status = 200
    /\ Len(resp.args.products) = 3
    /\ ~HasRows(ViewOf(resp), resp.args.products[1])
    /\ Len(resp.body.products) = 2

\* The detail of a product without rows in a date range.
C16_WitnessDetail ==
    /\ resp.op = "get_product_details"
    /\ resp.status = 404
    /\ OnTable(resp)
    /\ HasRange(resp)
    /\ HasRows(TableOf(resp.session_id), resp.args.product_name)

(***************************************************************************)
(* The monthly series on its own: prepare_time_series is called on the     *)
(* tables of sessions processed from files of up to MaxRawRows sales, each *)
(* in one of a few months in any order, of two products in turn.           *)
(***************************************************************************)
SeriesMonths == {1, 2, 4, 12}

SeriesItems == << <<"X">>, <<"Y">> >>

SeriesFile(months) ==
    [ext |-> "csv",
     content |-> DataFrame(RawColumns,
        [i \in 1..Len(months) |->
            RawRow(DateString(2024, months[i], 15, 0),
                   SeriesItems[((i - 1) % Len(SeriesItems)) + 1],
                   Num(2), Num(3), <<>>)])]

InitSeries ==
    /\ \E n \in 1..MaxRawRows :
        \E months \in [1..n -> SeriesMonths] :
            data_store = StoreAfter("s1", SeriesFile(months), FullMapping)
    /\ resp = Response("none", "", <<>>, 0, <<>>)

SeriesProducts == {NoProduct, <<"X">>, <<"Y">>, <<"Z">>}

SeriesTypes == {"revenue", "units", "transactions"}

\* prepare_time_series(data, product, forecast_type) on the table of a session
call_prepare_time_series ==
    /\ Idle
    /\ \E session_id \in DOMAIN data_store, product \in SeriesProducts,
          forecast_type \in SeriesTypes :
        LET out == prepare_time_series(get_data(data_store[session_id]), product,
                                       forecast_type)
        IN  /\ resp' = Response("prepare_time_series", session_id,
                           [product |-> product, forecast_type |-> forecast_type],
                           out.status,
                           IF out.status = 200 THEN out.ts ELSE out.body)
            /\ UNCHANGED data_store

NextSeries ==
    \/ call_prepare_time_series
    \/ deliver

SpecSeries == InitSeries /\ [][NextSeries]_vars

\* The month_year keys of the rows of the table that the product filter keeps.
MonthsOf(table, product) ==
    {table.rows[i].month_year :
        i \in {j \in 1..Len(table.rows) :
                  product = NoProduct \/ table.rows[j].product = product}}

\* C17: the series has one entry for each distinct month_year of the
\* product-filtered rows and no other entry, no period twice, each entry
\* dated the first of its month, in strictly ascending order of that date.
C17_SeriesOnePerMonth ==
    resp.op = "prepare_time_series" =>
        LET ts == resp.body
            months == MonthsOf(TableOf(resp.session_id), resp.args.product)
        IN  /\ resp.status = 200
            /\ {ts[i].period : i \in 1..Len(ts)} = months
            /\ Len(ts) = Cardinality(months)
            /\ \A i \in 1..Len(ts) :
                /\ ts[i].ds = to_datetime(DateString(ts[i].period \div 100,
                                                     ts[i].period % 100, 1, 0))
                /\ i > 1 => ts[i - 1].ds < ts[i].ds

\* The series of a product sold in December and then in January, in that
\* order of the rows: two entries, January first, no month between them.
C17_Witness ==
    /\ resp.op = "prepare_time_series"
    /\ resp.args.product = <<"X">>
    /\ Len(resp.body) = 2
    /\ resp.body[1].period = 202401
    /\ resp.body[2].period = 202412
    /\ TableOf(resp.session_id).rows[1].month_year = 202412

(***************************************************************************)
(* Forecasting on its own: sessions processed from files with 1 to         *)
(* MaxMonths months of history of the product X, one sale a month from     *)
(* January 2024 on, and sales of cola in the last two of these months.     *)
(***************************************************************************)
HistoryShapes == {"flat", "rising", "falling", "zigzag", "refund"}

HistoryAmount(shape, i) ==
    IF shape = "flat" THEN Num(3)
    ELSE IF shape = "rising" THEN Num(i)
    ELSE IF shape = "falling" THEN Num(9 - i)
    ELSE IF shape = "zigzag" THEN (IF i % 2 = 1 THEN Num(1) ELSE Num(7))
    ELSE IF i = 2 THEN << "-", "2" >> ELSE Num(4)

HistoryFile(months, shape) ==
    [ext |-> "csv",
     content |-> DataFrame(RawColumns,
        [i \in 1..months |->
            RawRow(DateString(2024, i, 15, 0), <<"X">>, Num(1),
                   HistoryAmount(shape, i), <<>>)]
        \o [k \in 1..(IF months > 1 THEN 2 ELSE 1) |->
            RawRow(DateString(2024, months + 1 - k, 20, 0), T_COLA, Num(2),
                   Num(1), <<>>)])]

InitForecast ==
    /\ \E months \in 1..MaxMonths, shape \in HistoryShapes :
        data_store = StoreAfter("s1", HistoryFile(months, shape), FullMapping)
    /\ resp = Response("none", "", <<>>, 0, <<>>)

ForecastMethods == {"moving_average", "exponential", "seasonal"}

WindowParams == {3, 5}

\* One of the three forecast methods on the series of a product.
forecast_method(ts, method, periods, window) ==
    IF method = "moving_average" THEN forecast_moving_average(ts, periods, window)
    ELSE IF method = "seasonal" THEN forecast_seasonal(ts, periods)
    ELSE forecast_exponential_smoothing(ts, periods, 3)

answer_forecast_method(session_id, args, ts) ==
    /\ resp' = Response("forecast_method", session_id, args, 200,
                        [months |-> Len(ts),
                         out |-> forecast_method(ts, args.method, args.periods,
                                                 args.window)])
    /\ UNCHANGED data_store

call_forecast_method ==
    /\ Idle
    /\ \E session_id \in DOMAIN data_store, product \in {NoProduct} \cup ProductParams,
          method \in ForecastMethods, periods \in PeriodsParams,
          window \in WindowParams :
        answer_forecast_method(session_id,
            [product |-> product, method |-> method, periods |-> periods,
             window |-> window],
            prepare_time_series(get_data(data_store[session_id]), product,
                                "revenue").ts)

NextForecast ==
    \/ call_forecast_method
    \/ api_get_forecast
    \/ api_get_products_with_forecasts
    \/ api_forecast_accuracy_test
    \/ deliver

SpecForecast == InitForecast /\ [][NextForecast]_vars

\* The months of history a method needs.
MonthsNeeded(method, window) ==
    IF method = "moving_average" THEN (IF window > 3 THEN window ELSE 3)
    ELSE IF method = "seasonal" THEN 6
    ELSE 3

PointInBand(pt) ==
    /\ IsFinite(pt.lower) /\ IsFinite(pt.forecast) /\ IsFinite(pt.upper)
    /\ ~RatLess(pt.lower, Rat(0, 1))
    /\ ~RatLess(pt.forecast, pt.lower)
    /\ ~RatLess(pt.upper, pt.forecast)

\* C18: each forecast method returns None on a series shorter than it needs
\* (moving average max(3, window) months, exponential smoothing 3, seasonal
\* 6) and otherwise exactly periods points with 0 <= lower <= forecast <=
\* upper.
C18_MethodsNoneOrPoints ==
    resp.op = "forecast_method" =>
        IF resp.body.months < MonthsNeeded(resp.args.method, resp.args.window)
        THEN resp.body.out = None
        ELSE /\ resp.body.out # None
             /\ Len(resp.body.out.forecasts) = resp.args.periods
             /\ \A i \in 1..Len(resp.body.out.forecasts) :
                    PointInBand(resp.body.out.forecasts[i])

\* A method given the months it needs on a falling series: it returns the
\* points asked for, and one it floored at 0.
C18_Witness ==
    /\ resp.op = "forecast_method"
    /\ resp.body.months >= MonthsNeeded(resp.args.method, resp.args.window)
    /\ resp.body.out # None
    /\ Len(resp.body.out.forecasts) = resp.args.periods
    /\ \E i \in 1..Len(resp.body.out.forecasts) :
           resp.body.out.forecasts[i].forecast = Rat(0, 1)

\* The moving average of window 5 on a series of four months: no forecast.
C18_WitnessNone ==
    /\ resp.op = "forecast_method"
    /\ resp.args.method = "moving_average"
    /\ resp.args.window = 5
    /\ resp.body.months = 4
    /\ resp.body.out = None

\* The series a forecasting request of the response r runs on.
SeriesOf(r) ==
    prepare_time_series(get_data(data_store[r.session_id]), r.args.product,
                        IF r.args.type # NoType THEN r.args.type
                        ELSE r.args.forecast_type).ts

Served(r) ==
    /\ r.session_id \in DOMAIN data_store
    /\ get_data(data_store[r.session_id]) # None

InsufficientData(r, need, have) ==
    /\ r.status = 400
    /\ r.body.detail \in {"Insufficient data", "Insufficient data for accuracy test"}
    /\ r.body.need = need
    /\ r.body.have = have

\* C19: a forecast request on fewer than 3 months and an accuracy request
\* on fewer than 3 + holdout months fail with InsufficientData carrying the
\* months needed and the months available, and a forecast request naming
\* method seasonal on a series of 3 to 5 months fails too: no forecast of
\* another method is returned in its place.
C19_InsufficientDataNotSubstituted ==
    /\ (resp.op = "get_forecast" /\ Served(resp)) =>
           /\ Len(SeriesOf(resp)) < 3 => InsufficientData(resp, 3, Len(SeriesOf(resp)))
           /\ (resp.args.method = "seasonal" /\ Len(SeriesOf(resp)) \in 3..5) =>
                  resp.status # 200
    /\ (resp.op = "forecast_accuracy_test" /\ Served(resp)) =>
           (Len(SeriesOf(resp)) < 3 + resp.args.holdout =>
               InsufficientData(resp, 3 + resp.args.holdout, Len(SeriesOf(resp))))

\* The requests of C19 that do fail as stated: the two length checks.
C19_LengthChecks ==
    /\ (resp.op = "get_forecast" /\ Served(resp)) =>
           (Len(SeriesOf(resp)) < 3 => InsufficientData(resp, 3, Len(SeriesOf(resp))))
    /\ (resp.op = "forecast_accuracy_test" /\ Served(resp)) =>
           (Len(SeriesOf(resp)) < 3 + resp.args.holdout =>
               InsufficientData(resp, 3 + resp.args.holdout, Len(SeriesOf(resp))))

\* What the method of a reported name makes on ts: None, or its points.
PointsOfNamed(method_name, ts, periods) ==
    IF method_name = "Moving Average" THEN forecast_moving_average(ts, periods, 3)
    ELSE IF method_name = "Seasonal Decomposition" THEN forecast_seasonal(ts, periods)
    ELSE IF method_name = "Exponential Smoothing"
    THEN forecast_exponential_smoothing(ts, periods, 3)
    ELSE None

\* The name auto must report on a series of the given length.
AutoName(months) ==
    IF months >= 6 THEN "Seasonal Decomposition" ELSE "Exponential Smoothing"

NameFits(asked, method_name, months) ==
    asked = "auto" => method_name = AutoName(months)

ForecastNamed(r) ==
    /\ NameFits(r.args.method, r.body.result.method, Len(SeriesOf(r)))
    /\ PointsOfNamed(r.body.result.method, SeriesOf(r), r.args.periods) # None
    /\ r.body.result.forecast =
           PointsOfNamed(r.body.result.method, SeriesOf(r), r.args.periods).forecasts

RankingEntryNamed(r, e) ==
    LET ts == prepare_time_series(get_data(data_store[r.session_id]), e.product,
                                  r.args.forecast_type).ts
        points == PointsOfNamed(e.method, ts, 1)
    IN  /\ NameFits(r.args.method, e.method, Len(ts))
        /\ points # None
        /\ e.nextMonthForecast = points.forecasts[1].forecast

TrainOf(r) == SubSeq(SeriesOf(r), 1, Len(SeriesOf(r)) - r.args.holdout)

TestOf(r) ==
    SubSeq(SeriesOf(r), Len(SeriesOf(r)) - r.args.holdout + 1, Len(SeriesOf(r)))

AccuracyNamed(r) ==
    LET points == PointsOfNamed(r.body.method, TrainOf(r), r.args.holdout)
    IN  /\ NameFits(r.args.method, r.body.method, Len(TrainOf(r)))
        /\ points # None
        /\ [i \in 1..Len(r.body.details) |-> r.body.details[i].predicted]
               = predictions(TestOf(r), points.forecasts)

\* C20: under method auto the method is seasonal decomposition iff the
\* series it runs on has at least 6 months and exponential smoothing
\* otherwise, and the method name of an answer names the method whose points
\* the answer holds: in the forecast, in each entry of the ranking and in
\* the accuracy test, where the series is the training portion.
C20_MethodNamed ==
    (resp.status = 200 /\ Served(resp)) =>
        /\ resp.op = "get_forecast" => ForecastNamed(resp)
        /\ resp.op = "get_products_with_forecasts" =>
               \A i \in 1..Len(resp.body) : RankingEntryNamed(resp, resp.body[i])
        /\ resp.op = "forecast_accuracy_test" => AccuracyNamed(resp)

\* Auto on six months or more answers with the seasonal method, and an
\* accuracy test under auto whose training portion has fewer than six
\* months of a longer series answers with exponential smoothing.
C20_Witness ==
    /\ resp.op = "get_forecast"
    /\ resp.status = 200
    /\ resp.args.method = "auto"
    /\ Len(SeriesOf(resp)) >= 6
    /\ resp.body.result.method = "Seasonal Decomposition"

C20_WitnessTraining ==
    /\ resp.op = "forecast_accuracy_test"
    /\ resp.status = 200
    /\ resp.args.method = "auto"
    /\ Len(SeriesOf(resp)) >= 6
    /\ Len(TrainOf(resp)) < 6
    /\ resp.body.method = "Exponential Smoothing"

C20_WitnessRanking ==
    /\ resp.op = "get_products_with_forecasts"
    /\ resp.status = 200
    /\ resp.args.method = "seasonal"
    /\ \E i \in 1..Len(resp.body) : resp.body[i].method = "Exponential Smoothing"

(***************************************************************************)
(* A year of identical months: twelve months of 2024 in which product X    *)
(* sells 1000, in one, two or four rows a month, with or without a sale of *)
(* another product in March.                                               *)
(***************************************************************************)
FlatRowAmounts ==
    << <<"1", "0", "0", "0">>, <<"5", "0", "0">>, <<>>, <<"2", "5", "0">> >>

FlatYearFile(per_month, day, other) ==
    [ext |-> "csv",
     content |-> DataFrame(RawColumns,
        [i \in 1..(12 * per_month) |->
            RawRow(DateString(2024, ((i - 1) \div per_month) + 1, day, 0), <<"X">>,
                   Num(1), FlatRowAmounts[per_month], <<>>)]
        \o (IF other
            THEN << RawRow(DateString(2024, 3, 9, 0), T_COLA, Num(2), Num(5), <<>>) >>
            ELSE <<>>))]

InitFlatYear ==
    /\ \E per_month \in {1, 2, 4}, day \in {1, 15, 28}, other \in BOOLEAN :
        data_store = StoreAfter("s1", FlatYearFile(per_month, day, other), FullMapping)
    /\ resp = Response("none", "", <<>>, 0, <<>>)

\* GET /forecast/{session_id} with each horizon the route accepts
\* (periods: ge=1, le=6).
api_get_forecast_any_horizon ==
    /\ Idle
    /\ \E session_id \in SessionIds, product \in {NoProduct} \cup ProductParams,
       periods \in 1..6, method \in MethodParams,
       forecast_type \in ForecastTypeParams, type \in TypeParams :
        LET out == get_forecast(session_id, product, periods, method, forecast_type, type)
        IN  /\ resp' = Response("get_forecast", session_id,
                           [product |-> product, periods |-> periods, method |-> method,
                            forecast_type |-> forecast_type, type |-> type],
                           out.status, out.body)
            /\ UNCHANGED data_store

NextFlatYear == api_get_forecast_any_horizon \/ deliver

SpecFlatYear == InitFlatYear /\ [][NextFlatYear]_vars

\* Twelve consecutive months, each of value 1000.
FlatYear(ts) ==
    /\ Len(ts) = 12
    /\ \A i \in 1..12 : ts[i].value = 1000
    /\ \A i \in 1..11 : ts[i + 1].period = PeriodAdd(ts[i].period, 1)

FlatPoint(pt) ==
    /\ pt.forecast = Rat(1000, 1)
    /\ pt.lower = Rat(800, 1)
    /\ pt.upper = Rat(1200, 1)

\* C21: on twelve consecutive months of revenue 1000 a forecast under
\* method auto is made by seasonal decomposition, every seasonal index is 1,
\* the trend is flat, and each point of the horizons 1 to 6 is 1000 with the
\* band 800 to 1200.
C21_FlatYearForecast ==
    (resp.op = "get_forecast" /\ Served(resp) /\ resp.args.method = "auto"
        /\ FlatYear(SeriesOf(resp))) =>
        /\ resp.status = 200
        /\ resp.body.result.method = "Seasonal Decomposition"
        /\ DOMAIN resp.body.seasonalIndices = 1..12
        /\ \A m \in 1..12 : resp.body.seasonalIndices[m] = Rat(1, 1)
        /\ resp.body.result.trend = "flat"
        /\ Len(resp.body.result.forecast) = resp.args.periods
        /\ \A i \in 1..resp.args.periods : FlatPoint(resp.body.result.forecast[i])

\* The request for six months ahead on the flat year, made of four rows a
\* month.
C21_Witness ==
    /\ resp.op = "get_forecast"
    /\ Served(resp)
    /\ resp.args.method = "auto"
    /\ resp.args.periods = 6
    /\ FlatYear(SeriesOf(resp))
    /\ Len(get_data(data_store[resp.session_id]).rows) >= 48
    /\ resp.status = 200
    /\ FlatPoint(resp.body.result.forecast[6])

\* A series of exactly 3 + holdout months, all of the same value.
ConstantSeries(ts, holdout) ==
    /\ Len(ts) = 3 + holdout
    /\ \A i \in 1..Len(ts) : ts[i].value = ts[1].value

ZeroMetrics(metrics) ==
    /\ metrics.MAE = Rat(0, 1)
    /\ metrics.RMSE_squared = Rat(0, 1)
    /\ metrics.MAPE = Rat(0, 1)

\* The accuracy answer scores the points the method makes on the first 3
\* months against the last holdout months.
ScoredOnFirstThree(r) ==
    LET ts == SeriesOf(r)
        h == r.args.holdout
        points == PointsOfNamed(r.body.method, SubSeq(ts, 1, 3), h)
    IN  /\ r.body.holdout = h
        /\ Len(r.body.details) = h
        /\ points # None
        /\ \A i \in 1..h :
               /\ r.body.details[i].period = ts[3 + i].period
               /\ r.body.details[i].actual = ts[3 + i].value
               /\ r.body.details[i].predicted =
                      predictions(SubSeq(ts, 4, 3 + h), points.forecasts)[i]

\* C22: an accuracy test with holdout h on a series of exactly 3 + h months
\* runs the method on the first 3 months and scores it against the last h;
\* on a constant series MAE, RMSE and MAPE are 0 under moving_average,
\* exponential and auto.
C22_AccuracyOnShortestSeries ==
    (resp.op = "forecast_accuracy_test" /\ Served(resp)
        /\ Len(SeriesOf(resp)) = 3 + resp.args.holdout
        /\ resp.args.method \in {"moving_average", "exponential", "auto"}) =>
        /\ resp.status = 200
        /\ ScoredOnFirstThree(resp)
        /\ ConstantSeries(SeriesOf(resp), resp.args.holdout) =>
               /\ ZeroMetrics(resp.body.metrics)
               /\ \A i \in 1..resp.args.holdout :
                      resp.body.details[i].predicted = Rat(SeriesOf(resp)[1].value, 1)

\* The moving average held out for three months of a constant series of six.
C22_Witness ==
    /\ resp.op = "forecast_accuracy_test"
    /\ Served(resp)
    /\ resp.args.method = "moving_average"
    /\ resp.args.holdout = 3
    /\ ConstantSeries(SeriesOf(resp), 3)
    /\ SeriesOf(resp)[1].value > 0
    /\ resp.status = 200
    /\ ZeroMetrics(resp.body.metrics)

(***************************************************************************)
(* The ranking runs: products A, B and C, each sold once a month from      *)
(* January 2024 for 2, 3 or 6 months at 1 or 2 a sale.  The rows of the    *)
(* later months carry the quantity 0, which the cleaning drops.            *)
(***************************************************************************)
RankedItems == << <<"A">>, <<"B">>, <<"C">> >>

RankingFile(months, amount) ==
    [ext |-> "csv",
     content |-> DataFrame(RawColumns,
        [i \in 1..18 |->
            RawRow(DateString(2024, ((i - 1) % 6) + 1, 10, 0),
                   RankedItems[((i - 1) \div 6) + 1],
                   IF ((i - 1) % 6) + 1 <= months[((i - 1) \div 6) + 1]
                   THEN Num(1) ELSE Num(0),
                   Num(amount[((i - 1) \div 6) + 1]), <<>>)])]

InitRanking ==
    /\ \E months \in [1..3 -> {2, 3, 6}], amount \in [1..3 -> {1, 2}] :
        data_store = StoreAfter("s1", RankingFile(months, amount), FullMapping)
    /\ resp = Response("none", "", <<>>, 0, <<>>)

\* GET /forecast-products/{session_id} with limits below, at and above the
\* number of products.
api_get_products_with_forecasts_limited ==
    /\ Idle
    /\ \E session_id \in SessionIds, limit \in 1..4,
       forecast_type \in ForecastTypeParams, method \in MethodParams :
        LET out == get_products_with_forecasts(session_id, limit, forecast_type, method)
        IN  /\ resp' = Response("get_products_with_forecasts", session_id,
                           [limit |-> limit, forecast_type |-> forecast_type,
                            method |-> method],
                           out.status, out.body)
            /\ UNCHANGED data_store

NextRanking == api_get_products_with_forecasts_limited \/ deliver

SpecRanking == InitRanking /\ [][NextRanking]_vars

RevenueOfProduct(data, product) == sum(Group(data, "product", product), "total")

\* a is ranked before b: the higher revenue, and at equal revenue the
\* earlier name.
RanksBefore(data, a, b) ==
    \/ RevenueOfProduct(data, a) > RevenueOfProduct(data, b)
    \/ /\ RevenueOfProduct(data, a) = RevenueOfProduct(data, b)
       /\ TextLess(a, b)

\* The limit products of highest revenue.
Considered(data, limit) ==
    {p \in unique(data, "product") :
        Cardinality({q \in unique(data, "product") : RanksBefore(data, q, p)}) < limit}

Ranked(r, data) ==
    /\ {r.body[i].product : i \in 1..Len(r.body)} =
           {p \in Considered(data, r.args.limit) :
               Len(prepare_time_series(data, p, r.args.forecast_type).ts) >= 3}
    /\ \A i \in 1..Len(r.body) : \A j \in (i + 1)..Len(r.body) :
           RanksBefore(data, r.body[i].product, r.body[j].product)
    /\ \A i \in 1..Len(r.body) : RankingEntryNamed(r, r.body[i])

\* C23: the ranking holds one entry for each of the limit products of
\* highest revenue whose series has at least 3 months and none for any other
\* product, in descending order of revenue, the request succeeding all the
\* same; the forecast of an entry is the first point of the method the entry
\* names.
C23_RankingOfTopProducts ==
    (resp.op = "get_products_with_forecasts" /\ Served(resp)) =>
        /\ resp.status = 200
        /\ Ranked(resp, get_data(data_store[resp.session_id]))

\* A ranking of the two products of highest revenue that leaves out the
\* first of them, whose series is too short, and lists the second.
C23_Witness ==
    /\ resp.op = "get_products_with_forecasts"
    /\ Served(resp)
    /\ resp.status = 200
    /\ resp.args.limit = 2
    /\ Len(resp.body) = 1
    /\ \E p \in Considered(get_data(data_store[resp.session_id]), 2) :
           /\ RanksBefore(get_data(data_store[resp.session_id]), p, resp.body[1].product)
           /\ Len(prepare_time_series(get_data(data_store[resp.session_id]), p,
                                       resp.args.forecast_type).ts) < 3

\* The ways the call to the model API fails.
UpstreamFailures == {o \in ClaudeOutcomes : o.kind \in {"timeout", "rejected", "request_error"}}

\* C24: a question asked with a key on a processed table, whose call to the
\* model API times out, is answered with another status than 200 or fails on
\* the network, ends with a failure, and the status of the failure tells
\* the three cases apart.
C24_UpstreamFailuresDistinguished ==
    \A session_id \in DOMAIN data_store :
        get_data(data_store[session_id]) # None =>
            \A question \in Questions : \A o1 \in UpstreamFailures :
                /\ ask_ai(session_id, question, TRUE, o1).status \notin 200..299
                /\ \A o2 \in UpstreamFailures :
                       o1.kind # o2.kind =>
                           ask_ai(session_id, question, TRUE, o1).status
                               # ask_ai(session_id, question, TRUE, o2).status

(***************************************************************************)
(* The invoice runs: sales of X in January and February 2024, each row on  *)
(* invoice a or b.                                                         *)
(***************************************************************************)
InvoiceIds == { <<"a">>, <<"b">> }

InvoiceFile(months, invoices) ==
    [ext |-> "csv",
     content |-> DataFrame(RawColumns,
        [i \in 1..Len(months) |->
            RawRow(DateString(2024, months[i], 12, 0), <<"X">>, Num(1), Num(3),
                   invoices[i])])]

InitInvoices ==
    /\ \E n \in 1..MaxRawRows :
        \E months \in [1..n -> 1..2], invoices \in [1..n -> InvoiceIds] :
            data_store = StoreAfter("s1", InvoiceFile(months, invoices), FullMapping)
    /\ resp = Response("none", "", <<>>, 0, <<>>)

NextInvoices ==
    \/ call_prepare_time_series
    \/ api_get_revenue_trend
    \/ deliver

SpecInvoices == InitInvoices /\ [][NextInvoices]_vars

\* The transactions the revenue trend reports for a month of the table.
TrendTransactions(data, period) ==
    LET trend == get_revenue_trend(AnalyticsService(data, None, None).value).value
    IN  SelectSeq(trend, LAMBDA row : row.period = period)[1].transactions

\* C25: on a table with the invoice_id column the transactions of a month
\* of the series are the distinct invoice identifiers of the rows of that
\* month, the count the revenue trend reports for the month.
C25_TransactionsAreInvoices ==
    (/\ resp.op = "prepare_time_series"
     /\ resp.status = 200
     /\ resp.args.product = NoProduct
     /\ "invoice_id" \in get_data(data_store[resp.session_id]).cols) =>
        \A i \in 1..Len(resp.body) :
            /\ resp.body[i].transactions =
                   Cardinality(unique(Group(get_data(data_store[resp.session_id]),
                                            "month_year", resp.body[i].period),
                                      "invoice_id") \ {<<>>})
            /\ resp.body[i].transactions =
                   TrendTransactions(get_data(data_store[resp.session_id]),
                                     resp.body[i].period)

(***************************************************************************)
(* The accuracy test on the series of the month runs, whose months may     *)
(* leave gaps.                                                             *)
(***************************************************************************)
NextGaps == api_forecast_accuracy_test \/ deliver

SpecGaps == InitSeries /\ [][NextGaps]_vars

Contiguous(ts) == \A i \in 1..(Len(ts) - 1) : ts[i + 1].period = PeriodAdd(ts[i].period, 1)

\* The actual of a period among the held-out months, 0 if it has none.
ActualOf(ts_test, period) ==
    LET hit == SelectSeq(ts_test, LAMBDA row : row.period = period)
    IN  IF Len(hit) > 0 THEN hit[1].value ELSE 0

\* C26: the accuracy test scores exactly holdout pairs, one for each
\* forecast point, against the held-out actual of the period of the point,
\* and against the actual 0 when no held-out month has that period.
C26_ForecastPointsScored ==
    (resp.op = "forecast_accuracy_test" /\ resp.status = 200 /\ Served(resp)) =>
        LET points == PointsOfNamed(resp.body.method, TrainOf(resp),
                                    resp.args.holdout).forecasts
        IN  /\ Len(resp.body.details) = resp.args.holdout
            /\ \A i \in 1..resp.args.holdout :
                   /\ resp.body.details[i].period = points[i].period
                   /\ resp.body.details[i].predicted = points[i].forecast
                   /\ resp.body.details[i].actual =
                          ActualOf(TestOf(resp), points[i].period)

\* The part of C26 the handler keeps: holdout pairs, and on contiguous
\* months each forecast point paired with the actual of its period.
C26_ContiguousPairs ==
    (resp.op = "forecast_accuracy_test" /\ resp.status = 200 /\ Served(resp)) =>
        /\ Len(resp.body.details) = resp.args.holdout
        /\ Contiguous(SeriesOf(resp)) =>
               C26_ForecastPointsScored

\* The table of a processor is absent, or what process_data makes of the
\* raw table of the processor under one of the mappings.
AbsentOrComplete(processor) ==
    \/ processor.data = None
    \/ \E column_mapping \in ColumnMappings :
          LET done == process_data([raw_data |-> processor.raw_data, data |-> None],
                                   column_mapping)
          IN  done.success /\ done.data = processor.data

\* C27: whatever the order of the upload, process and query requests, the
\* table a session holds after a step is absent or completely processed; a
\* process request refused with 404 or 400 (the session is unknown, a
\* required column is not mapped, or DataProcessor.process_data failed)
\* leaves the registry, raw tables included, as it was, and so does an
\* upload that fails.
C27_TableAbsentOrComplete ==
    [][/\ data_store' # data_store =>
              \A s \in DOMAIN data_store' : AbsentOrComplete(data_store'[s])
       /\ (resp'.op = "process_data" /\ resp'.status \in {400, 404}) =>
              data_store' = data_store
       /\ (resp'.op = "upload_file" /\ resp'.status # 200) =>
              data_store' = data_store]_vars

\* A process request failed in DataProcessor.process_data on a session that
\* holds the table of an earlier call.
C27_Witness ==
    /\ resp.op = "process_data"
    /\ resp.status = 400
    /\ resp.body.detail = "Error processing"
    /\ data_store[resp.session_id].data # None
    /\ Len(data_store[resp.session_id].data.rows) > 0

\* The transactions of the rows of a product: the distinct invoice_id
\* values, or the rows when the table has no invoice_id column.
TransactionsOf(product_df) ==
    IF "invoice_id" \in product_df.cols THEN invoice_nunique(product_df)
    ELSE Len(product_df.rows)

DetailsOf(r, product) ==
    get_product_details(AnalyticsService(TableOf(r.session_id), r.args.start_date,
                                         r.args.end_date).value, product)

\* C28: the avgQtyPerTxn of each product of a comparison is the units of
\* the product over its transactions, and is the avgQtyPerTransaction the
\* detail of the product reports on the same view.
C28_AvgQtyPerTxn ==
    (resp.op = "compare_products" /\ resp.status = 200) =>
        \A i \in 1..Len(resp.body.products) :
            LET entry == resp.body.products[i]
                product_df == Group(ViewOf(resp), "product", entry.name)
            IN  /\ entry.avgQtyPerTxn =
                       Rat(sum(product_df, "quantity"), TransactionsOf(product_df))
                /\ ~DetailsOf(resp, entry.name).raises
                /\ DetailsOf(resp, entry.name).value.avgQtyPerTransaction =
                       entry.avgQtyPerTxn

\* C29: on a view with rows the ABC summary has three entries, of class A,
\* B and C in that order, so that the entries read by position (summary[0],
\* summary[1], summary[2]) are those of class A, B and C, a class without
\* products included.
C29_SummaryPositions ==
    (resp.op = "get_abc_analysis" /\ resp.status = 200
        /\ Len(resp.body.details) > 0) =>
        /\ Len(resp.body.summary) = 3
        /\ resp.body.summary[1].class = "A"
        /\ resp.body.summary[2].class = "B"
        /\ resp.body.summary[3].class = "C"

\* The rows of the table within the bounds of the request, a bound that is
\* not given leaving its side open.
BoundedView(r) ==
    Where(TableOf(r.session_id), LAMBDA row :
        /\ r.args.start_date # None =>
               DayOf(row["date"]) >= DayOf(to_datetime(r.args.start_date))
        /\ r.args.end_date # None =>
               DayOf(row["date"]) <= DayOf(to_datetime(r.args.end_date)))

LoneBound(r) == (r.args.start_date = None) # (r.args.end_date = None)

\* C30: a KPI request that gives only start_date, or only end_date, is
\* answered from the rows dated on or after the start, or on or before the
\* end.
C30_LoneBoundApplied ==
    (resp.op = "get_kpis" /\ resp.status = 200 /\ LoneBound(resp)) =>
        resp.body = get_kpis([full_data |-> TableOf(resp.session_id),
                              data |-> BoundedView(resp)]).value

====
